---- MODULE Spec2Model ----
(***************************************************************************)
(* A model of the comparison routines of the tsdate evaluation harness:    *)
(*   utility.get_mut_ages_dict / utility.get_mut_pos_df   (SpecAges,       *)
(*                                                          SpecPos)       *)
(*                                                                         *)
(* Numbers.  Node times are naturals.  A mutation age is np.sqrt(a * b);   *)
(* the model carries every age as its square a * b (np.sqrt is strictly    *)
(* increasing on the non-negative reals, so order and equality of ages are *)
(* those of their squares).  -np.inf is carried as NegInf, which is below  *)
(* every square.  Genomic positions are carried in half units (position p  *)
(* stands for p / 2), so that np.round's round-half-to-even is exercised.  *)
(***************************************************************************)
EXTENDS Integers, Sequences, FiniteSets, TLC

VARIABLES
    (* inputs of get_mut_pos_df(ts, name, node_dates, exclude_root) *)
    num_trees,     \* ts.num_trees
    ts_sites,      \* the sites of ts in position order, each with the index of its tree
    dates,         \* node_dates, indexed by node id
    exclude_root,  \* the exclude_root flag
    (* state of get_mut_ages_dict / get_mut_pos_df *)
    pc,            \* position in the code
    tree_index,    \* number of trees the iterator ts.trees() has yielded
    tree,          \* the tree the iterator yielded last, as a parent map
    site_index,    \* number of sites visited so far
    site_ages,     \* the dict site_ages, as <<position, age>> in insertion order
    excluded,      \* history: <<site, mutation>> pairs that took the continue branch
    visited_in,    \* history: for each visited site, the tree it was visited in
    mut_df,        \* the data frame mut_df, as rows <<index, value>>
    (* inputs of kc_distance_ts, called on a pair of genealogies in both orders *)
    genealogies,   \* the pair <<A, B>> of genealogies that are compared
    lambda_param,  \* the weighting parameter, in units of 1 / LambdaSteps
    (* state of kc_distance_ts *)
    kc_pc,         \* position in the code
    ts_1,          \* the arguments of the running call
    ts_2,
    comb_breakpoints,   \* the merged breakpoints, and their membership arrays
    comb_isin_1,
    comb_isin_2,
    index,         \* the loop variable (0-based, as in the code)
    trees_1,       \* number of trees the iterator ts_1_trees has yielded
    trees_2,
    tree_1,        \* the local variables tree_1 and tree_2
    tree_2,
    kc,            \* the accumulator kc (in units of 1 / LambdaSteps)
    last_breakpoint,
    compared,      \* history: the sub-intervals whose distance was accumulated
    kc_results,    \* the outcomes of the finished calls
    (* inputs of generate_samples(ts, fn, aa_error, seq_error, empirical_seq_err_name) *)
    variants,      \* ts.variants(): the genotypes of every site of ts
    aa_error,      \* the argument aa_error: <<>> for "", <<k>> for k / AaSteps
    seq_error,     \* the argument seq_error: <<>> for "", <<k>> for k / 100
    error_probs,   \* the matrix passed as seq_error with an empirical model
    empirical_seq_err_name,
    (* state of generate_samples *)
    gen_pc,        \* position in the code
    sequencing_error,   \* the error function that was selected
    seq_error_rate,     \* seq_error after its conversion to a float
    aa_error_by_site,   \* the array of per-site polarity flags
    n_bad_sites,
    n_variants,
    sample_data,   \* the genotypes stored by sample_data.add_site, in order
    flipped_sites, \* history: the sites stored with genotypes = 1 - genotypes
    (* state of a worker process that calls the runners run_tsdate, run_tsinfer,
       run_relate and run_geva, and of time_cmd *)
    runner,        \* the runner that was called last
    run_pc,        \* position in the code of the runner
    run_calls,     \* number of runner calls of the process so far
    cwd,           \* the current working directory of the process
    cur_dir,       \* the local variable cur_dir of run_relate
    exit_status,   \* time_cmd: the exit status of the timed subprocess
    stderr,        \* time_cmd: the lines captured in the temporary file stderr
    cpu_time,      \* the local variables cpu_time and memory_use of the runner
    memory_use,
    run_raised,    \* the exception that left the runner, if any
    run_result,    \* the (cpu_time, memory_use) part of the returned tuple
    time_cmd_failed, \* history: the timed subprocess of this call exited non-zero
    num_samples,   \* run_relate: ts.num_samples of the argument ts
    relate_ts,     \* run_relate: the node table of relate_ts, as loaded
    relate_ts_fixed, \* run_relate: the node table of relate_ts_fixed
    (* inputs of one invocation of a figure: setup and run_multiprocessing *)
    figure,        \* the class whose setup and run_multiprocessing are run
    with_errors,   \* the flags empirical_error and ancestral_state_error of the class
    num_processes, \* the argument num_processes
    args_setup,    \* the invocation runs setup before the batch
    unit_raises,   \* the rows for which the unit of work raises
    (* state of setup and run_multiprocessing *)
    batch_pc,      \* position in the code
    data_file,     \* the file self.data_file on disk
    data,          \* the table self.data (row i of the model has index label i - 1)
    setup_param,   \* setup: position of the loop over parameter_arr
    setup_index,   \* setup: position of the loop over the seeds
    dispatched,    \* pool: number of rows handed to workers
    running,       \* pool: the rows the workers are busy with
    outqueue,      \* pool: results not yet yielded by imap_unordered
    master_dfs,    \* the master tables
    artifacts,     \* the master tables written to disk
    batch_error,   \* the exception that left run_multiprocessing, if any
    batch_log,     \* the messages of logging.error
    collected,     \* history: the rows whose result the loop body has processed
    units_run,     \* history: the rows on which the unit of work was started
    file_at_start, \* history: data_file at the call of run_multiprocessing
    (* inputs of sampledata_to_vcf(sample_data, filename) *)
    sites_position,  \* sample_data.sites_position, in half units
    sd_genotypes,    \* the genotype array of every site of sample_data
    (* state of sampledata_to_vcf *)
    vcf_pc,          \* position in the code
    vcf_i,           \* number of sites the loop has taken from sample_data.genotypes()
    pos_geno_dict,   \* the dict pos_geno_dict: the list POS and the lists msp_0, msp_1, ...
    (* inputs of compare_mutations(method_names, ts_list, relate_ages, geva_ages,
       geva_positions); the three tree sequences of ts_list have the edges and
       the sites of the simulated one and their own node times *)
    cmp_edges,       \* the edge table: [left, right, parent, child], edge id = index - 1
    cmp_sites,       \* the sites: [position (half units), mutations (the nodes)]
    relate_ages,     \* the rows [pos_of_snp, age] of relate_ages
    geva,            \* <<>> for geva_ages=None, else <<[positions, ages]>>
    (* state of compare_mutations and of the running get_mut_age *)
    cmp_pc,          \* position in the code
    cmp_k,           \* the tree sequence of ts_list get_mut_age runs on (1 .. 3)
    diffs_yielded,   \* number of items edge_diff_iter has yielded
    cmp_left,        \* the local variables left and right
    cmp_right,
    edges_by_child,  \* the dict edges_by_child, as a set of <<child, edge id>>
    sites_done,      \* number of sites "for site in ts.sites()" has finished
    cmp_mut_age,     \* the dict mut_age of the running call
    mut_ages_list,   \* the dicts the finished calls returned
    muts_done,       \* number of mutations "for mut in ts.mutations()" has finished
    relate_mut_ages, \* the dicts relate_mut_ages and geva_mut_ages
    geva_mut_ages,
    run_results,     \* the returned data frame: its rows, by index label
    (* inputs of run_evaluation.main: the parsed command line *)
    main_args,       \* args: [name, setup, inference]
    (* state of main *)
    main_pc,         \* position in the code
    main_fig,        \* number of figures of name_map the loop has taken
    main_step,       \* number of the calls on the current figure that have returned
    main_error,      \* the exception that left main, if any
    main_log,        \* history: the calls main has made and how they ended
    (* inputs of CpuScalingSampleSize.clear: the data directory and the replicate *)
    dir_files,       \* the names of the files in self.data_dir
    dir_subdirs,     \* the names of the directories in self.data_dir
    clear_filename,  \* filename: row["filename"] of the replicate that completed
    (* state of clear *)
    clear_pc,        \* position in the code
    clear_listing,   \* what is left of os.listdir / os.walk to iterate over
    clear_removed    \* history: the names clear has removed

agesVars == <<num_trees, ts_sites, dates, exclude_root, pc, tree_index, tree,
              site_index, site_ages, excluded, visited_in, mut_df>>

kcVars == <<genealogies, lambda_param, kc_pc, ts_1, ts_2, comb_breakpoints,
            comb_isin_1, comb_isin_2, index, trees_1, trees_2,
            tree_1, tree_2, kc, last_breakpoint, compared, kc_results>>

genVars == <<variants, aa_error, seq_error, error_probs, empirical_seq_err_name,
             gen_pc, sequencing_error, seq_error_rate, aa_error_by_site, n_bad_sites,
             n_variants, sample_data, flipped_sites>>

runVars == <<runner, run_pc, run_calls, cwd, cur_dir, exit_status, stderr, cpu_time,
             memory_use, run_raised, run_result, time_cmd_failed, num_samples,
             relate_ts, relate_ts_fixed>>

batchVars == <<figure, with_errors, num_processes, args_setup, unit_raises, batch_pc,
               data_file, data, setup_param, setup_index, dispatched, running, outqueue,
               master_dfs, artifacts, batch_error, batch_log, collected, units_run,
               file_at_start>>

vcfVars == <<sites_position, sd_genotypes, vcf_pc, vcf_i, pos_geno_dict>>

cmpVars == <<cmp_edges, cmp_sites, relate_ages, geva, cmp_pc, cmp_k, diffs_yielded,
             cmp_left, cmp_right, edges_by_child, sites_done, cmp_mut_age, mut_ages_list,
             muts_done, relate_mut_ages, geva_mut_ages, run_results>>

mainVars == <<main_args, main_pc, main_fig, main_step, main_error, main_log>>

clearVars == <<dir_files, dir_subdirs, clear_filename, clear_pc, clear_listing, clear_removed>>

toolVars == <<vcfVars, cmpVars, mainVars, clearVars>>

harnessVars == <<runVars, batchVars, toolVars>>

vars == <<agesVars, kcVars, genVars, harnessVars>>

----------------------------------------------------------------------------
(* Bounds of the model *)
NumNodes == 3
MaxTime == 2
MaxTrees == 2
MaxMuts == 2
MaxSites == 3
MaxPos == 5
MaxSeqLen == 3
MaxKcTrees == 2
LambdaSteps == 2
MaxGenSites == 3
NumSamples == 2
AaSteps == 4
MaxRunnerCalls == 2
MaxExit == 2
MaxMemory == 2
MaxSeconds == 1
MaxReplicates == 2
MaxProcesses == 2
MaxVcfSamples == 4
MaxEdgeLen == 3
MaxRelateNodes == 3
MaxReplicateIndex == 10

(* Program constants *)
NULL == -1
NegInf == -1

Nodes == 0 .. (NumNodes - 1)
Times == 0 .. MaxTime

----------------------------------------------------------------------------
(* Arithmetic helpers *)

SetMax(S) == IF S = {} THEN NegInf ELSE CHOOSE x \in S : \A y \in S : y <= x

Abs(x) == IF x < 0 THEN -x ELSE x

\* the permutations of 1 .. n
Perms(n) == {p \in [1 .. n -> 1 .. n] : \A a, b \in 1 .. n : p[a] = p[b] => a = b}

\* np.round on a position given in half units: round half to even
NpRound(p) ==
    IF p % 2 = 0 THEN p \div 2
    ELSE IF ((p - 1) \div 2) % 2 = 0 THEN (p - 1) \div 2 ELSE (p + 1) \div 2

----------------------------------------------------------------------------
(* The tree sequence *)

\* tree.parent(u) in the local tree with parent map par
TreeParent(par, u) == par[u]

\* A parent map is a tree of the tree sequence when every parent is strictly
\* older than its child (which also rules out cycles).
IsLocalTree(par, d) == \A c \in Nodes : par[c] # NULL => d[c] < d[par[c]]

LocalTrees(d) == {par \in [Nodes -> Nodes \cup {NULL}] : IsLocalTree(par, d)}

MutSeqs(n) == UNION {[1 .. k -> Nodes] : k \in 0 .. n}

\* ts.num_nodes
num_nodes == NumNodes

\* dates[i] with Python's index rule: a negative index counts from the end
DateAt(i) == IF i < 0 THEN dates[num_nodes + i] ELSE dates[i]

----------------------------------------------------------------------------
(* get_mut_ages_dict *)

\* the square of np.sqrt(dates[mut.node] * parent_age)
MutAge(node_age, parent_age) == node_age * parent_age

\* the test that guards the continue branch
SkipMutation(parent_node) == exclude_root /\ parent_node = num_nodes - 1

\* One pass of the body of "for mut in site.mutations", on the running site age
MutStepLastWins(par, node, age) ==
    IF SkipMutation(TreeParent(par, node)) THEN age
    ELSE MutAge(dates[node], DateAt(TreeParent(par, node)))

MutStepFirstWins(par, node, age) ==
    IF SkipMutation(TreeParent(par, node)) THEN age
    ELSE IF age = NegInf THEN MutAge(dates[node], DateAt(TreeParent(par, node)))
         ELSE age

MutStep(par, node, age) ==
    LET parent_node == TreeParent(par, node) IN
    IF SkipMutation(parent_node) THEN age
    ELSE LET parent_age == DateAt(parent_node)
             mut_age == MutAge(dates[node], parent_age)
         IN IF age < mut_age THEN mut_age ELSE age

RECURSIVE MutLoop(_, _, _)
MutLoop(par, muts, age) ==
    IF muts = <<>> THEN age
    ELSE MutLoop(par, Tail(muts), MutStep(par, Head(muts), age))

\* the mutations of a site that take the continue branch
SkippedAt(par, s, muts) ==
    {<<s, m>> : m \in {k \in 1 .. Len(muts) : SkipMutation(TreeParent(par, muts[k]))}}

\* d[k] = v on a dict kept as <<key, value>> pairs in insertion order
DictSet(d, k, v) ==
    IF \E i \in 1 .. Len(d) : d[i][1] = k
    THEN [i \in 1 .. Len(d) |-> IF d[i][1] = k THEN <<k, v>> ELSE d[i]]
    ELSE Append(d, <<k, v>>)

DictKeys(d) == {d[i][1] : i \in 1 .. Len(d)}

DictGet(d, k) == d[CHOOSE i \in 1 .. Len(d) : d[i][1] = k][2]

\* The body of "for site in tree.sites()" for one site s of the tree par:
\* site_ages[site.position] = -np.inf, then the loop over site.mutations
SiteBody(par, s, ages) ==
    DictSet(ages, s.position, MutLoop(par, s.mutations, NegInf))

----------------------------------------------------------------------------
(* get_mut_pos_df *)

\* pd.DataFrame.from_dict(mut_dict, orient="index") followed by
\* mut_df.index = np.round(mut_df.index).astype(int)
FromDictRounded(d) == [i \in 1 .. Len(d) |-> <<NpRound(d[i][1]), d[i][2]>>]

\* sort_values(by=[name], ascending=False, kind="mergesort"): a stable sort,
\* computed by inserting each row after the rows that are not smaller
SortValuesSkipped(rows) == rows

RECURSIVE SortValuesAsc(_)
SortValuesAsc(rows) ==
    IF rows = <<>> THEN <<>>
    ELSE LET s == SortValuesAsc(SubSeq(rows, 1, Len(rows) - 1))
             last == rows[Len(rows)]
             k == Cardinality({i \in 1 .. Len(s) : s[i][2] <= last[2]})
         IN SubSeq(s, 1, k) \o <<last>> \o SubSeq(s, k + 1, Len(s))

RECURSIVE SortValues(_)
SortValues(rows) ==
    IF rows = <<>> THEN <<>>
    ELSE LET s == SortValues(SubSeq(rows, 1, Len(rows) - 1))
             last == rows[Len(rows)]
             k == Cardinality({i \in 1 .. Len(s) : s[i][2] >= last[2]})
         IN SubSeq(s, 1, k) \o <<last>> \o SubSeq(s, k + 1, Len(s))

RECURSIVE SortedSeqOf(_)
SortedSeqOf(S) ==
    IF S = {} THEN <<>>
    ELSE LET m == CHOOSE x \in S : \A y \in S : x <= y
         IN <<m>> \o SortedSeqOf(S \ {m})

\* groupby(index).first(): the groups in ascending key order, each with the
\* value of its first row
GroupByFirst(rows) ==
    LET keys == SortedSeqOf({rows[i][1] : i \in 1 .. Len(rows)})
        first(k) == CHOOSE i \in 1 .. Len(rows) :
                        /\ rows[i][1] = k
                        /\ \A j \in 1 .. (i - 1) : rows[j][1] # k
    IN [j \in 1 .. Len(keys) |-> <<keys[j], rows[first(keys[j])][2]>>]

----------------------------------------------------------------------------
(* Actions of get_mut_pos_df, which starts by calling get_mut_ages_dict *)

\* tree.sites() has a site that was not visited yet
PendingSite ==
    /\ site_index < Len(ts_sites)
    /\ ts_sites[site_index + 1].tree = tree_index

\* for tree in ts.trees(): the iterator yields the next tree of the sequence
NextTree ==
    /\ pc = "trees"
    /\ ~PendingSite
    /\ tree_index < num_trees
    /\ tree_index' = tree_index + 1
    /\ tree' \in LocalTrees(dates)
    /\ UNCHANGED <<num_trees, ts_sites, dates, exclude_root, pc, site_index,
                   site_ages, excluded, visited_in, mut_df>>
    /\ UNCHANGED <<kcVars, genVars, harnessVars>>

\* for site in tree.sites(): one site of the current tree, with its mutations
VisitSite ==
    /\ pc = "trees"
    /\ PendingSite
    /\ LET s == ts_sites[site_index + 1]
       IN /\ site_ages' = SiteBody(tree, s, site_ages)
          /\ excluded' = excluded \cup SkippedAt(tree, site_index + 1, s.mutations)
    /\ visited_in' = Append(visited_in, tree)
    /\ site_index' = site_index + 1
    /\ UNCHANGED <<num_trees, ts_sites, dates, exclude_root, pc, tree_index, tree,
                   mut_df>>
    /\ UNCHANGED <<kcVars, genVars, harnessVars>>

\* the tree iterator is exhausted: get_mut_ages_dict returns site_ages
ReturnAges ==
    /\ pc = "trees"
    /\ ~PendingSite
    /\ tree_index = num_trees
    /\ pc' = "from_dict"
    /\ UNCHANGED <<num_trees, ts_sites, dates, exclude_root, tree_index, tree,
                   site_index, site_ages, excluded, visited_in, mut_df>>
    /\ UNCHANGED <<kcVars, genVars, harnessVars>>

FromDict ==
    /\ pc = "from_dict"
    /\ mut_df' = FromDictRounded(site_ages)
    /\ pc' = "sort"
    /\ UNCHANGED <<num_trees, ts_sites, dates, exclude_root, tree_index, tree,
                   site_index, site_ages, excluded, visited_in>>
    /\ UNCHANGED <<kcVars, genVars, harnessVars>>

SortDates ==
    /\ pc = "sort"
    /\ mut_df' = SortValues(mut_df)
    /\ pc' = "groupby"
    /\ UNCHANGED <<num_trees, ts_sites, dates, exclude_root, tree_index, tree,
                   site_index, site_ages, excluded, visited_in>>
    /\ UNCHANGED <<kcVars, genVars, harnessVars>>

GroupFirst ==
    /\ pc = "groupby"
    /\ mut_df' = GroupByFirst(mut_df)
    /\ pc' = "done"
    /\ UNCHANGED <<num_trees, ts_sites, dates, exclude_root, tree_index, tree,
                   site_index, site_ages, excluded, visited_in>>
    /\ UNCHANGED <<kcVars, genVars, harnessVars>>

----------------------------------------------------------------------------
(* kc_distance_ts *)

\* A genealogy is given by its breakpoints (0 = b_1 < ... < b_n = its sequence
\* length) and its local trees, one per interval.  Of a local tree the model
\* keeps the two quantities its KC vector is made of: m stands for the
\* topology part, M for the branch length part.
TreeShapes == {[m |-> 0, M |-> 0], [m |-> 0, M |-> 1], [m |-> 1, M |-> 0]}

\* the value of tree_1 and tree_2 before their first assignment
Unbound == [m |-> NULL, M |-> NULL]

Range(f) == {f[i] : i \in DOMAIN f}

\* tree_1.kc_distance(tree_2, lambda_param), in units of 1 / LambdaSteps: the
\* norm of the difference of the vectors (1 - lambda) * m + lambda * M
TreeKC(t1, t2, lam) ==
    Abs((LambdaSteps - lam) * (t1.m - t2.m) + lam * (t1.M - t2.M))

\* np.sort(np.unique(np.concatenate([ts_1_breakpoints, ts_2_breakpoints])))
CombBreakpoints(b1, b2) == SortedSeqOf(Range(b1) \cup Range(b2))

\* np.isin(comb_breakpoints, breakpoints)
CombIsInEvery(comb, b) == [i \in 1 .. Len(comb) |-> TRUE]

CombIsIn(comb, b) == [i \in 1 .. Len(comb) |-> comb[i] \in Range(b)]

\* the term added to kc for the sub-interval that starts at comb[i]
KcTermBranchLength(t1, t2, lam, left, right) ==
    TreeKC(t1, t2, LambdaSteps) * (right - left)

KcTerm(t1, t2, lam, left, right) == TreeKC(t1, t2, lam) * (right - left)

\* the divisor of the final kc /= (last_breakpoint - comb_breakpoints[0])
KcDivisorOfFirst(last, comb, b1) == b1[Len(b1)] - comb[1]

KcDivisorOfMerged(last, comb, b1) == comb[Len(comb)] - comb[1]

KcDivisor(last, comb, b1) == last - comb[1]

\* One pass of the body of the for loop, from the state st of the locals.
\* next(...) raises StopIteration when the iterator has yielded every tree;
\* reading tree_1 or tree_2 before assignment, or comb_breakpoints[index + 1]
\* past the end, raises as well.
KcLoopBody(st, a, b, lam) ==
    LET comb == comb_breakpoints
        i == st.index + 1
        adv1 == comb_isin_1[i]
        adv2 == comb_isin_2[i]
        stop1 == adv1 /\ st.trees_1 = Len(a.trees)
        n1 == IF adv1 /\ ~stop1 THEN st.trees_1 + 1 ELSE st.trees_1
        t1 == IF adv1 /\ ~stop1 THEN a.trees[n1] ELSE st.tree_1
        stop2 == ~stop1 /\ adv2 /\ st.trees_2 = Len(b.trees)
        n2 == IF ~stop1 /\ adv2 /\ ~stop2 THEN st.trees_2 + 1 ELSE st.trees_2
        t2 == IF ~stop1 /\ adv2 /\ ~stop2 THEN b.trees[n2] ELSE st.tree_2
        adv == [st EXCEPT !.trees_1 = n1, !.tree_1 = t1, !.trees_2 = n2, !.tree_2 = t2]
    IN IF stop1 \/ stop2
       THEN [adv EXCEPT !.last_breakpoint = comb[i], !.pc = "divide"]
       ELSE IF t1 = Unbound \/ t2 = Unbound
       THEN [adv EXCEPT !.pc = "raised"]
       ELSE IF i + 1 > Len(comb)
       THEN [adv EXCEPT !.pc = "raised"]
       ELSE [adv EXCEPT !.kc = st.kc + KcTerm(t1, t2, lam, comb[i], comb[i + 1]),
                        !.compared = Append(st.compared,
                                            [left |-> comb[i], right |-> comb[i + 1],
                                             t1 |-> n1, t2 |-> n2]),
                        !.index = st.index + 1,
                        !.pc = "loop"]

KcLocals ==
    [index |-> index, trees_1 |-> trees_1, trees_2 |-> trees_2, tree_1 |-> tree_1,
     tree_2 |-> tree_2, kc |-> kc, last_breakpoint |-> last_breakpoint,
     compared |-> compared, pc |-> kc_pc]

\* kc_distance_ts is called: first on (A, B), then on (B, A)
KcCall ==
    /\ kc_pc = "idle"
    /\ Len(kc_results) < 2
    /\ ts_1' = genealogies[IF Len(kc_results) = 0 THEN 1 ELSE 2]
    /\ ts_2' = genealogies[IF Len(kc_results) = 0 THEN 2 ELSE 1]
    /\ comb_breakpoints' = CombBreakpoints(ts_1'.breakpoints, ts_2'.breakpoints)
    /\ comb_isin_1' = CombIsIn(comb_breakpoints', ts_1'.breakpoints)
    /\ comb_isin_2' = CombIsIn(comb_breakpoints', ts_2'.breakpoints)
    /\ index' = 0
    /\ trees_1' = 0
    /\ trees_2' = 0
    /\ tree_1' = Unbound
    /\ tree_2' = Unbound
    /\ kc' = 0
    /\ last_breakpoint' = 0
    /\ compared' = <<>>
    /\ kc_pc' = "loop"
    /\ UNCHANGED <<genealogies, lambda_param, kc_results>>
    /\ UNCHANGED <<agesVars, genVars, harnessVars>>

\* one pass of "for index in range(len(comb_breakpoints))"; when the range is
\* used up without a break the loop ends with last_breakpoint as it is
KcIterate ==
    /\ kc_pc = "loop"
    /\ LET st == IF index < Len(comb_breakpoints)
                 THEN KcLoopBody(KcLocals, ts_1, ts_2, lambda_param)
                 ELSE [KcLocals EXCEPT !.pc = "divide"]
       IN /\ index' = st.index
          /\ trees_1' = st.trees_1
          /\ trees_2' = st.trees_2
          /\ tree_1' = st.tree_1
          /\ tree_2' = st.tree_2
          /\ kc' = st.kc
          /\ last_breakpoint' = st.last_breakpoint
          /\ compared' = st.compared
          /\ kc_pc' = st.pc
    /\ UNCHANGED <<genealogies, lambda_param, ts_1, ts_2, comb_breakpoints,
                   comb_isin_1, comb_isin_2, kc_results>>
    /\ UNCHANGED <<agesVars, genVars, harnessVars>>

\* kc /= (last_breakpoint - comb_breakpoints[0]); return(kc).  The quotient is
\* kept as the pair of its terms; a zero divisor makes numpy return nan or inf.
KcReturn ==
    /\ kc_pc \in {"divide", "raised"}
    /\ LET den == KcDivisor(last_breakpoint, comb_breakpoints, ts_1.breakpoints)
       IN kc_results' = Append(kc_results,
              IF kc_pc = "raised" THEN [kind |-> "raised", num |-> 0, den |-> 1]
              ELSE IF den = 0 THEN [kind |-> "nan", num |-> kc, den |-> den]
              ELSE [kind |-> "value", num |-> kc, den |-> den])
    /\ kc_pc' = "idle"
    /\ UNCHANGED <<genealogies, lambda_param, ts_1, ts_2, comb_breakpoints,
                   comb_isin_1, comb_isin_2, index, trees_1, trees_2, tree_1, tree_2,
                   kc, last_breakpoint, compared>>
    /\ UNCHANGED <<agesVars, genVars, harnessVars>>

----------------------------------------------------------------------------
(* generate_samples and the error functions *)

\* float(x) if x else 0, on an argument given as <<>> or <<k>>
FloatOrZero(x) == IF x = <<>> THEN 0 ELSE x[1]

\* Python's round(num / den): to the nearest integer, a tie to the even one
RoundDown(num, den) == num \div den

PyRound(num, den) ==
    LET q == num \div den
        r == num % den
    IN IF 2 * r < den THEN q
       ELSE IF 2 * r > den THEN q + 1
       ELSE IF q % 2 = 0 THEN q ELSE q + 1

\* the choice of the error function (evaluation.py, "Setup the sequencing
\* error used")
SelectAlwaysSimple(name, rate) ==
    IF name = "" THEN "make_seq_errors_simple" ELSE "make_seq_errors_genotype_model"

SelectSequencingError(name, rate) ==
    IF name = ""
    THEN IF rate = 0 THEN "make_no_errors" ELSE "make_seq_errors_simple"
    ELSE "make_seq_errors_genotype_model"

\* aa_error_by_site = np.zeros(n); aa_error_by_site[0:n_bad] = True
MarkOneMore(n, n_bad) == [i \in 1 .. n |-> i <= n_bad + 1]

MarkBadSites(n, n_bad) == [i \in 1 .. n |-> i <= n_bad]

\* sum(aa_error_by_site)
CountTrue(a) == Cardinality({i \in 1 .. Len(a) : a[i]})

\* the arrays np.random.shuffle can leave in place of a
Shuffles(a) == {[i \in 1 .. Len(a) |-> a[p[i]]] : p \in Perms(Len(a))}

\* 1 - genotypes
FlipGenotypes(g) == [i \in 1 .. Len(g) |-> 1 - g[i]]

\* make_no_errors(g, error_prob): the set of arrays it can return; the empty
\* set when its assertion fails
MakeNoErrors(g, error_prob) == IF error_prob = 0 THEN {g} ELSE {}

\* the rows of error_probs whose freq is nearest to the frequency sum(g) / m
\* (frequencies in units of 1 / m); argsort()[:1] takes one of them
ClosestRows(g, probs) ==
    LET frequency == Cardinality({i \in 1 .. Len(g) : g[i] = 1})
        dist(k) == Abs(probs[k].freq - frequency)
    IN {k \in 1 .. Len(probs) : \A j \in 1 .. Len(probs) : dist(k) <= dist(j)}

\* base_genotypes = np.array([[0, 0], [1, 0], [0, 1], [1, 1]])
base_genotypes == <<<<0, 0>>, <<1, 0>>, <<0, 1>>, <<1, 1>>>>

\* the rows of base_genotypes that np.random.choice draws from for a pair of
\* true genotype count, and the argument p of the draw, entry by entry, in
\* halves of the units of error_probs (so that p01 * 0.5 is a whole number)
PairProbsOppositeOrder(r, count) ==
    IF count = 0
    THEN <<<<1, 2 * r.p00>>, <<2, r.p01>>, <<3, r.p01>>, <<4, 2 * r.p02>>>>
    ELSE IF count = 1
    THEN <<<<1, 2 * r.p10>>, <<3, 2 * r.p11>>, <<4, 2 * r.p12>>>>
    ELSE IF count = 2
    THEN <<<<1, 2 * r.p10>>, <<2, 2 * r.p11>>, <<4, 2 * r.p12>>>>
    ELSE <<<<1, 2 * r.p20>>, <<2, r.p21>>, <<3, r.p21>>, <<4, 2 * r.p22>>>>

PairProbs(r, count) ==
    IF count = 0
    THEN <<<<1, 2 * r.p00>>, <<2, r.p01>>, <<3, r.p01>>, <<4, 2 * r.p02>>>>
    ELSE IF count = 1
    THEN <<<<1, 2 * r.p10>>, <<2, 2 * r.p11>>, <<4, 2 * r.p12>>>>
    ELSE IF count = 2
    THEN <<<<1, 2 * r.p10>>, <<3, 2 * r.p11>>, <<4, 2 * r.p12>>>>
    ELSE <<<<1, 2 * r.p20>>, <<2, r.p21>>, <<3, r.p21>>, <<4, 2 * r.p22>>>>

\* count = np.sum(np.array([1, 2]) * genos, axis=1), for one pair
TrueGenotype(geno) == geno[1] + 2 * geno[2]

\* the pairs np.random.choice can put in place of the pair geno under the
\* row r of error_probs: an outcome is possible when its probability is not 0
PairOutcomes(r, geno) ==
    LET p == PairProbs(r, TrueGenotype(geno))
    IN {base_genotypes[p[k][1]] : k \in {j \in 1 .. Len(p) : p[j][2] > 0}}

\* make_seq_errors_genotype_model(g, error_probs): the arrays it can return;
\* np.reshape(w, (-1, 2)) raises on an array of odd length (the empty set)
MakeSeqErrorsGenotypeModel(g, probs) ==
    IF Len(g) % 2 # 0 THEN {}
    ELSE UNION {
        {w \in [1 .. Len(g) -> {0, 1}] :
            \A j \in 1 .. (Len(g) \div 2) :
                <<w[2 * j - 1], w[2 * j]>>
                    \in PairOutcomes(probs[k], <<g[2 * j - 1], g[2 * j]>>)}
        : k \in ClosestRows(g, probs)}

\* sequencing_error(v.genotypes, seq_error): the arrays the selected function
\* can return; make_seq_errors_simple raises NotImplementedError
SequencingErrorResults(g) ==
    IF sequencing_error = "make_no_errors" THEN MakeNoErrors(g, seq_error_rate)
    ELSE IF sequencing_error = "make_seq_errors_genotype_model"
    THEN MakeSeqErrorsGenotypeModel(g, error_probs)
    ELSE {}

\* the exception of the selected function when it returns nothing
SequencingErrorRaises ==
    IF sequencing_error = "make_no_errors" THEN "AssertionError"
    ELSE IF sequencing_error = "make_seq_errors_simple" THEN "NotImplementedError"
    ELSE "ValueError"

\* The setup part of generate_samples: the error function is selected and the
\* polarity flags are drawn.  "assert aa_error <= 1" and
\* "assert sum(aa_error_by_site) == n_bad_sites" raise when they fail.
GenSetup ==
    /\ gen_pc = "setup"
    /\ LET rate == IF empirical_seq_err_name = "" THEN FloatOrZero(seq_error)
                   ELSE seq_error_rate
           aa == FloatOrZero(aa_error)
           n == Len(variants)
           n_bad == PyRound(aa * n, AaSteps)
       IN /\ sequencing_error' = SelectSequencingError(empirical_seq_err_name, rate)
          /\ seq_error_rate' = rate
          /\ IF aa > 0
             THEN IF aa > AaSteps
                  THEN /\ gen_pc' = "AssertionError"
                       /\ UNCHANGED <<aa_error_by_site, n_bad_sites>>
                  ELSE /\ n_bad_sites' = n_bad
                       /\ aa_error_by_site' \in Shuffles(MarkBadSites(n, n_bad))
                       /\ gen_pc' = IF CountTrue(aa_error_by_site') = n_bad
                                    THEN "variants" ELSE "AssertionError"
             ELSE /\ aa_error_by_site' = [i \in 1 .. n |-> FALSE]
                  /\ gen_pc' = "variants"
                  /\ UNCHANGED n_bad_sites
    /\ UNCHANGED <<variants, aa_error, seq_error, error_probs, empirical_seq_err_name,
                   n_variants, sample_data, flipped_sites>>
    /\ UNCHANGED <<agesVars, kcVars, harnessVars>>

\* One pass of "for ancestral_allele_error, v in zip(aa_error_by_site,
\* ts.variants())": the error function is applied and the site is stored
GenAddSite ==
    /\ gen_pc = "variants"
    /\ n_variants < Len(variants)
    /\ LET v == variants[n_variants + 1]
           ancestral_allele_error == aa_error_by_site[n_variants + 1]
       IN IF SequencingErrorResults(v) = {}
          THEN /\ gen_pc' = SequencingErrorRaises
               /\ UNCHANGED <<sample_data, flipped_sites>>
          ELSE /\ \E genotypes \in SequencingErrorResults(v) :
                      sample_data' = Append(sample_data,
                          IF ancestral_allele_error THEN FlipGenotypes(genotypes)
                          ELSE genotypes)
               /\ flipped_sites' = IF ancestral_allele_error
                                   THEN flipped_sites \cup {n_variants + 1}
                                   ELSE flipped_sites
               /\ UNCHANGED gen_pc
    /\ n_variants' = n_variants + 1
    /\ UNCHANGED <<variants, aa_error, seq_error, error_probs, empirical_seq_err_name,
                   sequencing_error, seq_error_rate, aa_error_by_site, n_bad_sites>>
    /\ UNCHANGED <<agesVars, kcVars, harnessVars>>

\* the variants are used up: sample_data.finalise(); return sample_data
GenFinalise ==
    /\ gen_pc = "variants"
    /\ n_variants = Len(variants)
    /\ gen_pc' = "done"
    /\ UNCHANGED <<variants, aa_error, seq_error, error_probs, empirical_seq_err_name,
                   sequencing_error, seq_error_rate, aa_error_by_site, n_bad_sites,
                   n_variants, sample_data, flipped_sites>>
    /\ UNCHANGED <<agesVars, kcVars, harnessVars>>

----------------------------------------------------------------------------
(* time_cmd and the runners built on it *)

Runners == {"run_tsdate", "run_tsinfer", "run_relate", "run_geva"}

\* the directory the process is started in, which holds src/, tools/ and data/
BaseDir == "evaluation"

\* the argument working_dir of run_relate (an absolute path, as its callers
\* build it from data_dir)
WorkingDir == "evaluation/simulated-data/relate_run"

NoException == [type |-> "none", status |-> 0, stderr |-> <<>>]

\* A line of the captured stderr: its text and the numbers it splits into.
\* GNU time writes the line of the format "%M %S %U" last, after the lines of
\* the timed command and its own note on a non-zero exit status.
ToolLines == {<<>>, <<[text |-> "error", fields |-> <<>>]>>}

TimeLines == {[text |-> "%M %S %U", fields |-> <<m, sy, us>>] :
                 m \in 1 .. MaxMemory, sy \in 0 .. MaxSeconds, us \in 0 .. MaxSeconds}

CapturedStderr(status, tool, time) ==
    tool \o (IF status # 0
             THEN <<[text |-> "Command exited with non-zero status", fields |-> <<status>>]>>
             ELSE <<>>)
         \o <<time>>

\* the exception time_cmd raises on a non-zero exit status
TimeCmdFailureAsCalledProcessError == "CalledProcessError"

TimeCmdFailure == "ValueError"

\* time_cmd(cmd), given what subprocess.call returned and left in stderr: the
\* exception it raises, or the pair it returns
TimeCmd(status, captured) ==
    IF status # 0
    THEN [raises |-> [type |-> TimeCmdFailure, status |-> status, stderr |-> captured],
          result |-> <<>>]
    ELSE LET split == captured[Len(captured)].fields
             max_memory == split[1] * 1024
             system_time == split[2]
             user_time == split[3]
         IN [raises |-> NoException, result |-> <<user_time + system_time, max_memory>>]

\* The executables are given relative to the directory the process was started
\* in (run_relate joins them to cur_dir): they are found only from there.
ExecutableFound == IF runner = "run_relate" THEN cur_dir = BaseDir ELSE cwd = BaseDir

\* the statement that follows a step of a runner
AfterStep(r, step) ==
    IF r = "run_relate"
    THEN CASE step = "chdir" -> "convert_from_vcf"
           [] step = "convert_from_vcf" -> "time_cmd"
           [] step = "time_cmd" -> "convert_to_ts"
           [] step = "convert_to_ts" -> "load"
           [] step = "load" -> "set_flags"
           [] step = "set_flags" -> "read_csv"
           [] step = "read_csv" -> "chdir_back"
           [] OTHER -> "return"
    ELSE IF r = "run_geva"
    THEN CASE step = "geva_out" -> "awk"
           [] step = "awk" -> "time_cmd"
           [] step = "time_cmd" -> "read_csv"
           [] OTHER -> "return"
    ELSE CASE step = "time_cmd" -> "load"
           [] OTHER -> "return"

FirstStep(r) ==
    IF r = "run_relate" THEN "chdir" ELSE IF r = "run_geva" THEN "geva_out" ELSE "time_cmd"

\* The node table of the tree sequence the Relate converter wrote: a row has
\* the columns flags, time and population (tskit.NULL when it is not set);
\* node i - 1 has time i - 1
NodeTables ==
    UNION {{[i \in 1 .. n |-> [flags |-> fl[i], time |-> i - 1, population |-> pp[i]]]
               : fl \in [1 .. n -> {0, 1}], pp \in [1 .. n -> {NULL, 0}]}
           : n \in 1 .. MaxRelateNodes}

\* np.concatenate([np.repeat(1, n_samples), np.repeat(0, n_nodes - n_samples)]);
\* np.repeat raises ValueError on a negative count
CorrectSampleFlags(n_nodes, n_samples) ==
    [i \in 1 .. n_nodes |-> IF i <= n_samples THEN 1 ELSE 0]

\* table_collection.nodes.set_columns(flags=flags, time=time): every column
\* of the table is replaced; a column that is not given gets its default,
\* which is tskit.NULL for population
SetColumns(nodes, flags, time) ==
    [i \in 1 .. Len(nodes) |-> [flags |-> flags[i], time |-> time[i], population |-> NULL]]

\* an exception leaves the runner: nothing is assigned, nothing is restored
RunnerRaises(exc) ==
    /\ run_pc' = "raised"
    /\ run_raised' = exc

\* the worker process calls a runner
RunnerCall ==
    /\ run_pc \in {"idle", "returned", "raised"}
    /\ run_calls < MaxRunnerCalls
    /\ \E r \in Runners :
          /\ runner' = r
          /\ run_pc' = FirstStep(r)
          /\ cur_dir' = IF r = "run_relate" THEN cwd ELSE cur_dir
    /\ run_calls' = run_calls + 1
    /\ cpu_time' = <<>>
    /\ memory_use' = <<>>
    /\ run_raised' = NoException
    /\ run_result' = <<>>
    /\ time_cmd_failed' = FALSE
    /\ UNCHANGED <<cwd, exit_status, stderr>>
    /\ num_samples' \in (IF runner' = "run_relate" THEN 1 .. 2 ELSE {0})
    /\ relate_ts' = <<>>
    /\ relate_ts_fixed' = <<>>
    /\ UNCHANGED <<agesVars, kcVars, genVars, batchVars, toolVars>>

\* run_relate: os.mkdir(working_dir) when it is missing; os.chdir(working_dir)
RelateEnter ==
    /\ run_pc = "chdir"
    /\ cwd' = WorkingDir
    /\ run_pc' = AfterStep(runner, run_pc)
    /\ UNCHANGED <<runner, run_calls, cur_dir, exit_status, stderr, cpu_time,
                   memory_use, run_raised, run_result, time_cmd_failed>>
    /\ UNCHANGED <<num_samples, relate_ts, relate_ts_fixed>>
    /\ UNCHANGED <<agesVars, kcVars, genVars, batchVars, toolVars>>

\* subprocess.check_output(...): raises CalledProcessError on a non-zero exit
\* status, FileNotFoundError when the executable is not found
CheckOutput ==
    /\ run_pc \in {"convert_from_vcf", "convert_to_ts", "geva_out"}
    /\ IF ~ExecutableFound
       THEN RunnerRaises([type |-> "FileNotFoundError", status |-> 0, stderr |-> <<>>])
       ELSE \E status \in 0 .. MaxExit :
               IF status # 0
               THEN RunnerRaises([type |-> "CalledProcessError", status |-> status,
                                  stderr |-> <<>>])
               ELSE /\ run_pc' = AfterStep(runner, run_pc)
                    /\ UNCHANGED run_raised
    /\ UNCHANGED <<runner, run_calls, cwd, cur_dir, exit_status, stderr, cpu_time,
                   memory_use, run_result, time_cmd_failed>>
    /\ UNCHANGED <<num_samples, relate_ts, relate_ts_fixed>>
    /\ UNCHANGED <<agesVars, kcVars, genVars, batchVars, toolVars>>

\* run_geva: subprocess.call(["awk", ...], stdout=out), its status is not read
CallAwk ==
    /\ run_pc = "awk"
    /\ run_pc' = AfterStep(runner, run_pc)
    /\ UNCHANGED <<runner, run_calls, cwd, cur_dir, exit_status, stderr, cpu_time,
                   memory_use, run_raised, run_result, time_cmd_failed>>
    /\ UNCHANGED <<num_samples, relate_ts, relate_ts_fixed>>
    /\ UNCHANGED <<agesVars, kcVars, genVars, batchVars, toolVars>>

\* cpu_time, memory_use = time_cmd(...).  run_geva wraps the call in
\* try / except subprocess.CalledProcessError, whose handler prints and goes on.
TimeCmdStep ==
    /\ run_pc = "time_cmd"
    /\ \E status \in (IF ExecutableFound THEN 0 .. MaxExit ELSE 1 .. MaxExit),
          tool \in ToolLines, time \in TimeLines :
          LET captured == CapturedStderr(status, tool, time)
              out == TimeCmd(status, captured)
          IN /\ exit_status' = status
             /\ stderr' = captured
             /\ time_cmd_failed' = (status # 0)
             /\ IF out.raises = NoException
                THEN /\ cpu_time' = <<out.result[1]>>
                     /\ memory_use' = <<out.result[2]>>
                     /\ run_pc' = AfterStep(runner, run_pc)
                     /\ UNCHANGED run_raised
                ELSE IF runner = "run_geva" /\ out.raises.type = "CalledProcessError"
                THEN /\ run_pc' = AfterStep(runner, run_pc)
                     /\ UNCHANGED <<cpu_time, memory_use, run_raised>>
                ELSE /\ RunnerRaises(out.raises)
                     /\ UNCHANGED <<cpu_time, memory_use>>
    /\ UNCHANGED <<runner, run_calls, cwd, cur_dir, run_result>>
    /\ UNCHANGED <<num_samples, relate_ts, relate_ts_fixed>>
    /\ UNCHANGED <<agesVars, kcVars, genVars, batchVars, toolVars>>

\* tskit.load(...) / pd.read_csv(...) of a file the tools have written: the
\* file is there or the call raises
LoadOutput ==
    /\ run_pc \in {"load", "read_csv"}
    /\ \E found \in BOOLEAN :
          IF found
          THEN /\ run_pc' = AfterStep(runner, run_pc)
               /\ relate_ts' \in (IF runner = "run_relate" /\ run_pc = "load"
                                  THEN NodeTables ELSE {relate_ts})
               /\ UNCHANGED run_raised
          ELSE /\ RunnerRaises([type |-> "FileNotFoundError", status |-> 0, stderr |-> <<>>])
               /\ UNCHANGED relate_ts
    /\ UNCHANGED <<num_samples, relate_ts_fixed>>
    /\ UNCHANGED <<runner, run_calls, cwd, cur_dir, exit_status, stderr, cpu_time,
                   memory_use, run_result, time_cmd_failed>>
    /\ UNCHANGED <<agesVars, kcVars, genVars, batchVars, toolVars>>

\* run_relate: "Set samples flags to 1", the rewrite of the node table of the
\* loaded tree sequence
RelateSetFlags ==
    /\ run_pc = "set_flags"
    /\ IF Len(relate_ts) < num_samples
       THEN /\ RunnerRaises([type |-> "ValueError", status |-> 0, stderr |-> <<>>])
            /\ UNCHANGED relate_ts_fixed
       ELSE /\ relate_ts_fixed' =
                   SetColumns(relate_ts, CorrectSampleFlags(Len(relate_ts), num_samples),
                              [i \in 1 .. Len(relate_ts) |-> relate_ts[i].time])
            /\ run_pc' = AfterStep(runner, run_pc)
            /\ UNCHANGED run_raised
    /\ UNCHANGED <<runner, run_calls, cwd, cur_dir, exit_status, stderr, cpu_time,
                   memory_use, run_result, time_cmd_failed, num_samples, relate_ts>>
    /\ UNCHANGED <<agesVars, kcVars, genVars, batchVars, toolVars>>

\* run_relate: os.chdir(cur_dir)
RelateLeave ==
    /\ run_pc = "chdir_back"
    /\ cwd' = cur_dir
    /\ run_pc' = AfterStep(runner, run_pc)
    /\ UNCHANGED <<runner, run_calls, cur_dir, exit_status, stderr, cpu_time,
                   memory_use, run_raised, run_result, time_cmd_failed>>
    /\ UNCHANGED <<num_samples, relate_ts, relate_ts_fixed>>
    /\ UNCHANGED <<agesVars, kcVars, genVars, batchVars, toolVars>>

\* return ..., cpu_time, memory_use: reading a local variable that was never
\* assigned raises UnboundLocalError
RunnerReturn ==
    /\ run_pc = "return"
    /\ IF cpu_time = <<>> \/ memory_use = <<>>
       THEN /\ RunnerRaises([type |-> "UnboundLocalError", status |-> 0, stderr |-> <<>>])
            /\ UNCHANGED run_result
       ELSE /\ run_result' = <<cpu_time[1], memory_use[1]>>
            /\ run_pc' = "returned"
            /\ UNCHANGED run_raised
    /\ UNCHANGED <<runner, run_calls, cwd, cur_dir, exit_status, stderr, cpu_time,
                   memory_use, time_cmd_failed>>
    /\ UNCHANGED <<num_samples, relate_ts, relate_ts_fixed>>
    /\ UNCHANGED <<agesVars, kcVars, genVars, batchVars, toolVars>>

\* the state of a worker process that has called no runner yet
RunStart ==
    /\ runner = "none"
    /\ run_pc = "idle"
    /\ run_calls = 0
    /\ cwd = BaseDir
    /\ cur_dir = BaseDir
    /\ exit_status = 0
    /\ stderr = <<>>
    /\ cpu_time = <<>>
    /\ memory_use = <<>>
    /\ run_raised = NoException
    /\ run_result = <<>>
    /\ time_cmd_failed = FALSE
    /\ num_samples = 0
    /\ relate_ts = <<>>
    /\ relate_ts_fixed = <<>>

----------------------------------------------------------------------------
(* The figure classes of run_evaluation: setup and run_multiprocessing *)

\* The classes with a run_multiprocessing of their own or inherited from
\* DataGeneration, and "evaluation" for the function evaluation.run_multiprocessing
Figures == {"CpuScalingSampleSize", "NeutralSimulatedMutationAccuracy",
            "SimulateVanillaAncient", "TsdateChr20", "evaluation"}

\* the class attribute name (the output prefix of evaluation.run_all_methods_compare)
FigureName(fig) ==
    CASE fig = "CpuScalingSampleSize" -> "cpu_scaling_samplesize"
      [] fig = "NeutralSimulatedMutationAccuracy" -> "neutral_simulated_mutation_accuracy"
      [] fig = "SimulateVanillaAncient" -> "simulate_vanilla_ancient"
      [] fig = "TsdateChr20" -> "tsdate_chr20_accuracy"
      [] OTHER -> "comparison"

\* data_dir, relative to the directory the process is started in
DataDir == "simulated-data/"

\* the first sample sizes of CpuScalingSampleSize
sample_sizes == <<10, 260>>

\* len(parameter_arr): the sample sizes, or [None]
NumParams(fig) == IF fig = "CpuScalingSampleSize" THEN Len(sample_sizes) ELSE 1

\* str(param)
StrOfParam(fig, k) ==
    IF fig = "CpuScalingSampleSize" THEN ToString(sample_sizes[k]) ELSE "None"

\* filename = self.name + "_" + str(param) + "_" + str(index)
FilenameWithoutIndex(name, param, rep) == name \o "_" \o param

Filename(name, param, rep) == name \o "_" \o param \o "_" \o ToString(rep)

\* SimulateVanillaAncient.setup_fn: filename = self.name + "_" + str(index)
SetupFnFilename(name, rep) == name \o "_" \o ToString(rep)

\* the row setup appends for parameter k and replicate rep; the column
\* result stands for the columns the unit of work fills in
SetupRow(fig, k, rep) ==
    [filename |-> IF fig = "SimulateVanillaAncient"
                  THEN SetupFnFilename(FigureName(fig), rep)
                  ELSE Filename(FigureName(fig), StrOfParam(fig, k), rep),
     replicate |-> rep,
     result |-> 0]

\* the table a finished setup saves: default_replicates rows per parameter
SetupRows(fig) ==
    [n \in 1 .. (NumParams(fig) * MaxReplicates) |->
        SetupRow(fig, ((n - 1) \div MaxReplicates) + 1, (n - 1) % MaxReplicates)]

\* the items of the iterable params of evaluation.run_multiprocessing
ParamRows(n) == [i \in 1 .. n |-> SetupRow("evaluation", 1, i - 1)]

NoFile == [exists |-> FALSE, rows |-> <<>>]

CsvFile(rows) == [exists |-> TRUE, rows |-> rows]

\* the classes whose run_multiprocessing reads the table of setup
HasDataFile(fig) == fig # "evaluation"

\* the classes whose run_multiprocessing maps the unit of work over the rows
MapsOverRows(fig) == fig # "TsdateChr20"

\* the number of items of the tuple the class's unit of work returns:
\* (index, row), (index, row, [tables]), (index, row, 8 tables), (table, table)
TupleShape(fig) ==
    CASE fig = "NeutralSimulatedMutationAccuracy" -> 3
      [] fig = "SimulateVanillaAncient" -> 10
      [] OTHER -> 2

\* the number of targets of the for statement that unpacks a result
UnpackTargets(fig, serial) ==
    CASE fig = "NeutralSimulatedMutationAccuracy" -> IF serial THEN 8 ELSE 3
      [] fig = "SimulateVanillaAncient" -> 10
      [] OTHER -> 2

\* the number of master tables
NumTables(fig) ==
    CASE fig = "NeutralSimulatedMutationAccuracy" -> 6
      [] fig = "SimulateVanillaAncient" -> 8
      [] fig = "evaluation" -> 2
      [] OTHER -> 0

\* the serial branch of NeutralSimulatedMutationAccuracy concatenates to
\* master_mutation_df and the like, which are assigned nowhere
MasterNamesBound(fig, serial) == ~(fig = "NeutralSimulatedMutationAccuracy" /\ serial)

\* table k of the result of the unit of work on row i: one row, or None (the
\* error variants of NeutralSimulatedMutationAccuracy.inference without the
\* error flags), which pd.concat drops
UnitTable(fig, errors, i, k) ==
    IF fig = "NeutralSimulatedMutationAccuracy" /\ ~errors /\ k \notin {1, 4}
    THEN <<>>
    ELSE <<<<i, k>>>>

\* the row the unit of work on row i returns
ReturnedRow(row, i) == [row EXCEPT !.result = i]

\* pd.concat([master, df], sort=False) / list.append
MasterConcatKeepsLast(master, df) == df

MasterConcat(master, df) == master \o df

\* the key of self.data.loc[index] = row, for the result that arrives as
\* number n + 1
DataLocByArrival(i, n) == n + 1

DataLocKey(i, n) == i

\* the suffixes output_fn of the error variants of a replicate
OutputFns(errors) == IF errors THEN {"", ".error", ".ancestral_state.error"} ELSE {""}

\* relate_dir = os.path.join(self.data_dir, "relate_" + row["filename"] + output_fn)
RelateDir(filename, output_fn) == DataDir \o "relate_" \o filename \o output_fn

\* the Relate working directories of the unit of work on a row
RelateDirsOf(row) == {RelateDir(row.filename, o) : o \in OutputFns(with_errors)}

\* an exception leaves setup or run_multiprocessing
BatchRaises(err) ==
    /\ batch_pc' = "raised"
    /\ batch_error' = err

\* the row the worker was given for the unit of work on row i
RowOf(i) == IF HasDataFile(figure) THEN file_at_start.rows[i] ELSE data[i]

\* DataGeneration.setup: one pass of the loop over the seeds of a parameter
SetupSimulate ==
    /\ batch_pc = "setup"
    /\ setup_param <= NumParams(figure)
    /\ data' = Append(data, SetupRow(figure, setup_param, setup_index))
    /\ IF setup_index + 1 < MaxReplicates
       THEN /\ setup_index' = setup_index + 1
            /\ UNCHANGED setup_param
       ELSE /\ setup_index' = 0
            /\ setup_param' = setup_param + 1
    /\ UNCHANGED <<figure, with_errors, num_processes, args_setup, unit_raises, batch_pc,
                   data_file, dispatched, running, outqueue, master_dfs, artifacts,
                   batch_error, batch_log, collected, units_run, file_at_start>>
    /\ UNCHANGED <<agesVars, kcVars, genVars, runVars, toolVars>>

\* DataGeneration.setup: the loops are over, self.summarize() saves the table
SetupSummarize ==
    /\ batch_pc = "setup"
    /\ setup_param > NumParams(figure)
    /\ data_file' = CsvFile(data)
    /\ batch_pc' = "inference"
    /\ UNCHANGED <<figure, with_errors, num_processes, args_setup, unit_raises, data,
                   setup_param, setup_index, dispatched, running, outqueue, master_dfs,
                   artifacts, batch_error, batch_log, collected, units_run,
                   file_at_start>>
    /\ UNCHANGED <<agesVars, kcVars, genVars, runVars, toolVars>>

\* run_multiprocessing up to its loop: the table is read (a missing file is
\* logged and the method goes on), the master tables are made.
\* TsdateChr20 reads into a local variable, which stays unassigned when the
\* file is missing.
BatchStart ==
    /\ batch_pc = "inference"
    /\ file_at_start' = data_file
    /\ IF HasDataFile(figure)
       THEN IF data_file.exists
            THEN /\ data' = data_file.rows
                 /\ UNCHANGED batch_log
            ELSE /\ batch_log' = Append(batch_log, "Must run with --setup flag first")
                 /\ UNCHANGED data
       ELSE UNCHANGED <<data, batch_log>>
    /\ IF MapsOverRows(figure)
       THEN /\ batch_pc' = IF num_processes > 1 THEN "pool" ELSE "serial"
            /\ UNCHANGED batch_error
       ELSE IF data_file.exists
            THEN /\ batch_pc' = "function"
                 /\ UNCHANGED batch_error
            ELSE BatchRaises("UnboundLocalError")
    /\ master_dfs' = [k \in 1 .. NumTables(figure) |-> <<>>]
    /\ UNCHANGED <<figure, with_errors, num_processes, args_setup, unit_raises, data_file,
                   setup_param, setup_index, dispatched, running, outqueue, artifacts,
                   collected, units_run>>
    /\ UNCHANGED <<agesVars, kcVars, genVars, runVars, toolVars>>

\* TsdateChr20.run_multiprocessing: function(data, num_threads=num_processes)
CallFunction ==
    /\ batch_pc = "function"
    /\ units_run' = units_run \cup {1}
    /\ IF 1 \in unit_raises
       THEN BatchRaises("unit of work")
       ELSE /\ batch_pc' = "done"
            /\ UNCHANGED batch_error
    /\ UNCHANGED <<figure, with_errors, num_processes, args_setup, unit_raises, data_file,
                   data, setup_param, setup_index, dispatched, running, outqueue,
                   master_dfs, artifacts, batch_log, collected, file_at_start>>
    /\ UNCHANGED <<agesVars, kcVars, genVars, runVars, toolVars>>

\* The for statement and its body on the result of the unit of work on row i:
\* the unit's exception is raised here; the result is unpacked; then
\* self.data.loc[index] = row, self.summarize(), and the concatenations.
LoopBody(i, serial) ==
    IF i \in unit_raises
    THEN /\ BatchRaises("unit of work")
         /\ UNCHANGED <<data, data_file, master_dfs, collected>>
    ELSE IF TupleShape(figure) # UnpackTargets(figure, serial)
    THEN /\ BatchRaises("ValueError: not enough values to unpack")
         /\ UNCHANGED <<data, data_file, master_dfs, collected>>
    ELSE /\ collected' = Append(collected, i)
         /\ IF HasDataFile(figure)
            THEN /\ data' = [data EXCEPT ![DataLocKey(i, Len(collected))] =
                                             ReturnedRow(RowOf(i), i)]
                 /\ data_file' = CsvFile(data')
            ELSE UNCHANGED <<data, data_file>>
         /\ IF MasterNamesBound(figure, serial)
            THEN /\ master_dfs' =
                        [k \in 1 .. Len(master_dfs) |->
                            MasterConcat(master_dfs[k],
                                         UnitTable(figure, with_errors, i, k))]
                 /\ UNCHANGED <<batch_pc, batch_error>>
            ELSE /\ BatchRaises("UnboundLocalError")
                 /\ UNCHANGED master_dfs

\* pool: the next row of self.data.iterrows() goes to a free worker, which
\* starts the unit of work on it
PoolDispatch ==
    /\ batch_pc = "pool"
    /\ dispatched < Len(data)
    /\ Cardinality(running) < num_processes
    /\ dispatched' = dispatched + 1
    /\ running' = running \cup {dispatched + 1}
    /\ units_run' = units_run \cup {dispatched + 1}
    /\ UNCHANGED <<figure, with_errors, num_processes, args_setup, unit_raises, batch_pc,
                   data_file, data, setup_param, setup_index, outqueue, master_dfs,
                   artifacts, batch_error, batch_log, collected, file_at_start>>
    /\ UNCHANGED <<agesVars, kcVars, genVars, runVars, toolVars>>

\* pool: a worker ends its unit of work; its result (or exception) is queued
PoolFinish ==
    /\ batch_pc = "pool"
    /\ \E i \in running :
          /\ running' = running \ {i}
          /\ outqueue' = Append(outqueue, i)
    /\ UNCHANGED <<figure, with_errors, num_processes, args_setup, unit_raises, batch_pc,
                   data_file, data, setup_param, setup_index, dispatched, master_dfs,
                   artifacts, batch_error, batch_log, collected, units_run,
                   file_at_start>>
    /\ UNCHANGED <<agesVars, kcVars, genVars, runVars, toolVars>>

\* pool: imap_unordered yields the next result to the for statement; an
\* exception leaves the with block, which terminates the pool
PoolCollect ==
    /\ batch_pc = "pool"
    /\ outqueue # <<>>
    /\ LoopBody(Head(outqueue), FALSE)
    /\ IF batch_pc' = "raised"
       THEN /\ running' = {}
            /\ outqueue' = <<>>
       ELSE /\ outqueue' = Tail(outqueue)
            /\ UNCHANGED running
    /\ UNCHANGED <<figure, with_errors, num_processes, args_setup, unit_raises,
                   setup_param, setup_index, dispatched, artifacts, batch_log, units_run,
                   file_at_start>>
    /\ UNCHANGED <<agesVars, kcVars, genVars, runVars, toolVars>>

\* serial: map(function, self.data.iterrows()) runs the unit of work on the
\* next row and the body of the for statement follows
SerialStep ==
    /\ batch_pc = "serial"
    /\ Len(collected) < Len(data)
    /\ units_run' = units_run \cup {Len(collected) + 1}
    /\ LoopBody(Len(collected) + 1, TRUE)
    /\ UNCHANGED <<figure, with_errors, num_processes, args_setup, unit_raises,
                   setup_param, setup_index, dispatched, running, outqueue, artifacts,
                   batch_log, file_at_start>>
    /\ UNCHANGED <<agesVars, kcVars, genVars, runVars, toolVars>>

\* the loop is over: the master tables are written (the classes without master
\* tables write nothing; pd.concat of an empty list raises)
BatchWrite ==
    /\ batch_pc \in {"pool", "serial"}
    /\ Len(collected) = Len(data)
    /\ IF figure = "evaluation" /\ Len(data) = 0
       THEN /\ BatchRaises("ValueError: No objects to concatenate")
            /\ UNCHANGED artifacts
       ELSE /\ artifacts' = IF NumTables(figure) > 0
                            THEN [written |-> TRUE, tables |-> master_dfs]
                            ELSE artifacts
            /\ batch_pc' = "done"
            /\ UNCHANGED batch_error
    /\ UNCHANGED <<figure, with_errors, num_processes, args_setup, unit_raises, data_file,
                   data, setup_param, setup_index, dispatched, running, outqueue,
                   master_dfs, batch_log, collected, units_run, file_at_start>>
    /\ UNCHANGED <<agesVars, kcVars, genVars, runVars, toolVars>>

\* the locals of setup and run_multiprocessing before they run
BatchLocals ==
    /\ setup_param = 1
    /\ setup_index = 0
    /\ dispatched = 0
    /\ running = {}
    /\ outqueue = <<>>
    /\ master_dfs = <<>>
    /\ artifacts = [written |-> FALSE, tables |-> <<>>]
    /\ batch_error = "none"
    /\ batch_log = <<>>
    /\ collected = <<>>
    /\ units_run = {}
    /\ file_at_start = NoFile

\* One invocation for a figure: with or without setup (SimulateVanillaAncient
\* has a setup of its own, so its table comes from an earlier invocation), with
\* the table of an earlier setup on disk or not, on one or more processes, and
\* a unit of work that raises on at most one row.
InitBatch ==
    /\ figure \in Figures
    /\ with_errors \in (IF figure = "NeutralSimulatedMutationAccuracy"
                        THEN BOOLEAN ELSE {FALSE})
    /\ num_processes \in 1 .. MaxProcesses
    /\ args_setup \in (IF figure \in {"SimulateVanillaAncient", "evaluation"}
                       THEN {FALSE} ELSE BOOLEAN)
    /\ unit_raises \in {{}} \cup {{i} : i \in 1 .. MaxReplicates}
    /\ batch_pc = IF args_setup THEN "setup" ELSE "inference"
    /\ data_file \in (IF HasDataFile(figure)
                      THEN {NoFile, CsvFile(SetupRows(figure))} ELSE {NoFile})
    /\ data \in (IF figure = "evaluation"
                 THEN {ParamRows(n) : n \in 0 .. MaxReplicates} ELSE {<<>>})
    /\ BatchLocals

\* no figure is run
BatchIdle ==
    /\ figure = "none"
    /\ with_errors = FALSE
    /\ num_processes = 1
    /\ args_setup = FALSE
    /\ unit_raises = {}
    /\ batch_pc = "idle"
    /\ data_file = NoFile
    /\ data = <<>>
    /\ BatchLocals

----------------------------------------------------------------------------
(* sampledata_to_vcf *)

\* int(round(x)) on a position given in half units: Python's round takes a
\* tie to the even integer
IntRound(p) ==
    LET q == p \div 2
    IN IF p % 2 = 0 THEN q ELSE IF q % 2 = 0 THEN q ELSE q + 1

\* len(sample_data.individuals_metadata[:]): the sample data files of the
\* harness are written by generate_samples, which adds no individuals, so
\* that there is one individual per sample
NumIndividuals(genotypes) == IF genotypes = <<>> THEN 0 ELSE Len(genotypes[1])

\* the lists msp_i created before the loop: range(int(num_individuals / 2))
NumColumns(num_individuals) == num_individuals \div 2

\* str(i[1][j]) + "|" + str(i[1][j+1])
GenotypeEntry(a, b) == ToString(a) \o "|" \o ToString(b)

\* pos in pos_geno_dict["POS"]
PosNeverSeen(pos, POS) == FALSE

PosSeen(pos, POS) == \E k \in 1 .. Len(POS) : POS[k] = pos

\* the values j / 2 of "for j in range(0, len(g), 2)", in order
PairIndices(g) == [k \in 1 .. ((Len(g) + 1) \div 2) |-> k - 1]

\* The inner loop over the pairs of the genotype array g, from the lists cols:
\* the entry of pair k is appended to msp_k; a key msp_k that was not created
\* raises KeyError, which ends the loop with the lists as they are
RECURSIVE AppendPairs(_, _, _)
AppendPairs(cols, g, k) ==
    IF k > Len(PairIndices(g)) THEN [cols |-> cols, raised |-> FALSE]
    ELSE IF PairIndices(g)[k] + 1 > Len(cols) THEN [cols |-> cols, raised |-> TRUE]
    ELSE AppendPairs(
            [cols EXCEPT ![k] = Append(@, GenotypeEntry(g[2 * k - 1], g[2 * k]))],
            g, k + 1)

\* The lines before the loop: the dict with the empty list POS and one empty
\* list per pair of individuals
VcfCall ==
    /\ vcf_pc = "call"
    /\ pos_geno_dict' =
           [POS |-> <<>>,
            cols |-> [k \in 1 .. NumColumns(NumIndividuals(sd_genotypes)) |-> <<>>]]
    /\ vcf_pc' = "loop"
    /\ UNCHANGED <<sites_position, sd_genotypes, vcf_i>>
    /\ UNCHANGED <<agesVars, kcVars, genVars, runVars, batchVars, cmpVars, mainVars, clearVars>>

\* One pass of "for i in sample_data.genotypes()"
VcfSite ==
    /\ vcf_pc = "loop"
    /\ vcf_i < Len(sd_genotypes)
    /\ LET pos == IntRound(sites_position[vcf_i + 1])
           g == sd_genotypes[vcf_i + 1]
       IN IF PosSeen(pos, pos_geno_dict.POS)
          THEN UNCHANGED <<pos_geno_dict, vcf_pc>>
          ELSE LET r == AppendPairs(pos_geno_dict.cols, g, 1)
               IN /\ pos_geno_dict' = [POS |-> Append(pos_geno_dict.POS, pos),
                                       cols |-> r.cols]
                  /\ vcf_pc' = IF r.raised THEN "KeyError" ELSE "loop"
    /\ vcf_i' = vcf_i + 1
    /\ UNCHANGED <<sites_position, sd_genotypes>>
    /\ UNCHANGED <<agesVars, kcVars, genVars, runVars, batchVars, cmpVars, mainVars, clearVars>>

\* df = pd.DataFrame(pos_geno_dict); ...; return df.  The constructor raises
\* ValueError when the lists are not of one length
VcfReturn ==
    /\ vcf_pc = "loop"
    /\ vcf_i = Len(sd_genotypes)
    /\ vcf_pc' = IF \A k \in 1 .. Len(pos_geno_dict.cols) :
                        Len(pos_geno_dict.cols[k]) = Len(pos_geno_dict.POS)
                 THEN "done" ELSE "ValueError"
    /\ UNCHANGED <<sites_position, sd_genotypes, vcf_i, pos_geno_dict>>
    /\ UNCHANGED <<agesVars, kcVars, genVars, runVars, batchVars, cmpVars, mainVars, clearVars>>

\* the state on entry to sampledata_to_vcf
VcfStart ==
    /\ vcf_pc = "call"
    /\ vcf_i = 0
    /\ pos_geno_dict = [POS |-> <<>>, cols |-> <<>>]

\* sampledata_to_vcf is not called
VcfIdle ==
    /\ sites_position = <<>>
    /\ sd_genotypes = <<>>
    /\ vcf_pc = "idle"
    /\ vcf_i = 0
    /\ pos_geno_dict = [POS |-> <<>>, cols |-> <<>>]

----------------------------------------------------------------------------
(* compare_mutations and its get_mut_age *)

\* the nodes of the tree sequences: node n is older than node n - 1
CmpNodes == {0, 1, 2}

\* ts.sequence_length
SequenceLength == MaxEdgeLen

\* ts.tables.nodes.time[n] in the tree sequence number k of ts_list
NodeTime(k, n) == k * n

\* The items of ts.edge_diffs(): one per tree, with the interval of the tree,
\* the edges that end at its left end and the edges that start there (as sets
\* of edge ids)
EdgeDiffs(edges) ==
    LET ids == 1 .. Len(edges)
        bp == SortedSeqOf({0, SequenceLength}
                          \cup {edges[e].left : e \in ids}
                          \cup {edges[e].right : e \in ids})
    IN [i \in 1 .. (Len(bp) - 1) |->
           [left |-> bp[i], right |-> bp[i + 1],
            edges_out |-> {e - 1 : e \in {x \in ids : edges[x].right = bp[i]}},
            edges_in |-> {e - 1 : e \in {x \in ids : edges[x].left = bp[i]}}]]

\* while right <= site.position (right in whole units, the position in half
\* units)
NeedsNextDiffStrict(right, position) == 2 * right < position

NeedsNextDiff(right, position) == 2 * right <= position

\* the key under which get_mut_age stores the age of a site: site.position
SiteKey(position) == position

\* the key under which the loop over ts.mutations() stores the relate and geva
\* ages: np.round(mut.position), a float; in half units
RoundedKey(position) == 2 * NpRound(position)

\* "for m in site.mutations": a mutation whose node has an edge above it
\* stores (time[m.node] + time[parent]) / 2 under the key of the site; the
\* model carries the sum, without the halving
RECURSIVE SiteMutations(_, _, _, _, _)
SiteMutations(d, site, by_child, k, n) ==
    IF n > Len(site.mutations) THEN d
    ELSE LET node == site.mutations[n]
             hit == {c \in by_child : c[1] = node}
         IN IF hit = {} THEN SiteMutations(d, site, by_child, k, n + 1)
            ELSE LET edge_id == (CHOOSE c \in hit : TRUE)[2]
                     parent == cmp_edges[edge_id + 1].parent
                 IN SiteMutations(
                        DictSet(d, SiteKey(site.position),
                                NodeTime(k, node) + NodeTime(k, parent)),
                        site, by_child, k, n + 1)

\* the state of the locals of get_mut_age when it is called
GetMutAgeLocals ==
    /\ diffs_yielded = 0
    /\ cmp_left = 0
    /\ cmp_right = 0
    /\ edges_by_child = {}
    /\ sites_done = 0
    /\ cmp_mut_age = <<>>

\* One pass of the while loop of get_mut_age: next(edge_diff_iter), then the
\* edges out are deleted from edges_by_child and the edges in are added.
\* next raises StopIteration on a used up iterator, del raises KeyError on a
\* missing child, and the assertion fails on a child that is in the dict.
CmpNextDiff ==
    /\ cmp_pc = "site"
    /\ sites_done < Len(cmp_sites)
    /\ NeedsNextDiff(cmp_right, cmp_sites[sites_done + 1].position)
    /\ LET diffs == EdgeDiffs(cmp_edges) IN
       IF diffs_yielded = Len(diffs)
       THEN /\ cmp_pc' = "StopIteration"
            /\ UNCHANGED <<diffs_yielded, cmp_left, cmp_right, edges_by_child>>
       ELSE LET d == diffs[diffs_yielded + 1]
                children == {c[1] : c \in edges_by_child}
                out == {cmp_edges[e + 1].child : e \in d.edges_out}
                kept == {c \in edges_by_child : c[1] \notin out}
                new == {<<cmp_edges[e + 1].child, e>> : e \in d.edges_in}
            IN /\ diffs_yielded' = diffs_yielded + 1
               /\ cmp_left' = d.left
               /\ cmp_right' = d.right
               /\ IF ~(out \subseteq children)
                  THEN /\ cmp_pc' = "KeyError"
                       /\ UNCHANGED edges_by_child
                  ELSE IF \/ \E c \in new : c[1] \in {x[1] : x \in kept}
                          \/ \E c1, c2 \in new : c1[1] = c2[1] /\ c1 # c2
                  THEN /\ cmp_pc' = "AssertionError"
                       /\ UNCHANGED edges_by_child
                  ELSE /\ edges_by_child' = kept \cup new
                       /\ UNCHANGED cmp_pc
    /\ UNCHANGED <<cmp_edges, cmp_sites, relate_ages, geva, cmp_k, sites_done, cmp_mut_age,
                   mut_ages_list, muts_done, relate_mut_ages, geva_mut_ages, run_results>>
    /\ UNCHANGED <<agesVars, kcVars, genVars, runVars, batchVars, vcfVars, mainVars, clearVars>>

\* the while loop of the site has ended: "for m in site.mutations"
CmpSiteMutations ==
    /\ cmp_pc = "site"
    /\ sites_done < Len(cmp_sites)
    /\ ~NeedsNextDiff(cmp_right, cmp_sites[sites_done + 1].position)
    /\ cmp_mut_age' = SiteMutations(cmp_mut_age, cmp_sites[sites_done + 1], edges_by_child,
                                cmp_k, 1)
    /\ sites_done' = sites_done + 1
    /\ UNCHANGED <<cmp_edges, cmp_sites, relate_ages, geva, cmp_pc, cmp_k, diffs_yielded,
                   cmp_left, cmp_right, edges_by_child, mut_ages_list, muts_done,
                   relate_mut_ages, geva_mut_ages, run_results>>
    /\ UNCHANGED <<agesVars, kcVars, genVars, runVars, batchVars, vcfVars, mainVars, clearVars>>

\* return mut_age; compare_mutations calls get_mut_age on ts, dated_ts and
\* dated_inferred_ts in turn and then starts "for mut in ts.mutations()"
CmpReturnAges ==
    /\ cmp_pc = "site"
    /\ sites_done = Len(cmp_sites)
    /\ mut_ages_list' = Append(mut_ages_list, cmp_mut_age)
    /\ IF cmp_k < 3
       THEN /\ cmp_k' = cmp_k + 1
            /\ UNCHANGED cmp_pc
       ELSE /\ cmp_pc' = "mutations"
            /\ UNCHANGED cmp_k
    /\ diffs_yielded' = 0
    /\ cmp_left' = 0
    /\ cmp_right' = 0
    /\ edges_by_child' = {}
    /\ sites_done' = 0
    /\ cmp_mut_age' = <<>>
    /\ UNCHANGED <<cmp_edges, cmp_sites, relate_ages, geva, muts_done, relate_mut_ages,
                   geva_mut_ages, run_results>>
    /\ UNCHANGED <<agesVars, kcVars, genVars, runVars, batchVars, vcfVars, mainVars, clearVars>>

\* ts.mutations(): the positions of the mutations of every site, in order
RECURSIVE MutationPositions(_)
MutationPositions(sites) ==
    IF sites = <<>> THEN <<>>
    ELSE [n \in 1 .. Len(sites[1].mutations) |-> sites[1].position]
         \o MutationPositions(Tail(sites))

\* the first row of relate_ages whose pos_of_snp is the rounded position
RelateRows(rows, position) ==
    {i \in 1 .. Len(rows) : 2 * rows[i].pos_of_snp = RoundedKey(position)}

\* geva_positions.index[geva_positions['Position'] == position].tolist()[0]
GevaRows(g, position) ==
    {i \in 1 .. Len(g.positions) : 2 * g.positions[i] = RoundedKey(position)}

\* One pass of "for mut in ts.mutations()"
CmpMutation ==
    /\ cmp_pc = "mutations"
    /\ muts_done < Len(MutationPositions(cmp_sites))
    /\ LET pos == MutationPositions(cmp_sites)[muts_done + 1]
           rr == RelateRows(relate_ages, pos)
       IN /\ relate_mut_ages' =
                 IF rr = {} THEN relate_mut_ages
                 ELSE DictSet(relate_mut_ages, RoundedKey(pos),
                              relate_ages[CHOOSE i \in rr : \A j \in rr : i <= j].age)
          /\ geva_mut_ages' =
                 IF geva = <<>> THEN geva_mut_ages
                 ELSE LET gr == GevaRows(geva[1], pos) IN
                      IF gr = {} THEN geva_mut_ages
                      ELSE LET geva_pos == (CHOOSE i \in gr : \A j \in gr : i <= j) - 1
                           IN IF geva_pos \in DictKeys(geva[1].ages)
                              THEN DictSet(geva_mut_ages, RoundedKey(pos),
                                           DictGet(geva[1].ages, geva_pos))
                              ELSE geva_mut_ages
    /\ muts_done' = muts_done + 1
    /\ UNCHANGED <<cmp_edges, cmp_sites, relate_ages, geva, cmp_pc, cmp_k, diffs_yielded,
                   cmp_left, cmp_right, edges_by_child, sites_done, cmp_mut_age,
                   mut_ages_list, run_results>>
    /\ UNCHANGED <<agesVars, kcVars, genVars, runVars, batchVars, vcfVars, mainVars, clearVars>>

\* the entry of a dict in a row of the frame: <<value>>, or <<>> for NaN
Cell(d, key) == IF key \in DictKeys(d) THEN <<DictGet(d, key)>> ELSE <<>>

\* pd.DataFrame([mut_ages, mut_dated_ages, mut_inferred_dated_ages,
\* relate_mut_ages, geva_mut_ages], index=[...]).T: one row per key of any of
\* the dicts; the column geva only when geva_ages is given
RunResults(ages, relate, gv, with_geva) ==
    LET keys == DictKeys(ages[1]) \cup DictKeys(ages[2]) \cup DictKeys(ages[3])
                \cup DictKeys(relate) \cup (IF with_geva THEN DictKeys(gv) ELSE {})
    IN [key \in keys |->
           [simulated_ts |-> Cell(ages[1], key), tsdate |-> Cell(ages[2], key),
            tsdate_inferred |-> Cell(ages[3], key), relate |-> Cell(relate, key),
            geva |-> IF with_geva THEN Cell(gv, key) ELSE <<>>]]

\* the loop over the mutations has ended: the frame is built and returned
CmpFrame ==
    /\ cmp_pc = "mutations"
    /\ muts_done = Len(MutationPositions(cmp_sites))
    /\ run_results' = RunResults(mut_ages_list, relate_mut_ages, geva_mut_ages,
                                 geva # <<>>)
    /\ cmp_pc' = "done"
    /\ UNCHANGED <<cmp_edges, cmp_sites, relate_ages, geva, cmp_k, diffs_yielded,
                   cmp_left, cmp_right, edges_by_child, sites_done, cmp_mut_age,
                   mut_ages_list, muts_done, relate_mut_ages, geva_mut_ages>>
    /\ UNCHANGED <<agesVars, kcVars, genVars, runVars, batchVars, vcfVars, mainVars, clearVars>>

\* the state on entry to compare_mutations, at the first call of get_mut_age
CmpStart ==
    /\ cmp_pc = "site"
    /\ cmp_k = 1
    /\ GetMutAgeLocals
    /\ mut_ages_list = <<>>
    /\ muts_done = 0
    /\ relate_mut_ages = <<>>
    /\ geva_mut_ages = <<>>
    /\ run_results = <<>>

\* compare_mutations is not called
CmpIdle ==
    /\ cmp_edges = <<>>
    /\ cmp_sites = <<>>
    /\ relate_ages = <<>>
    /\ geva = <<>>
    /\ cmp_pc = "idle"
    /\ cmp_k = 1
    /\ GetMutAgeLocals
    /\ mut_ages_list = <<>>
    /\ muts_done = 0
    /\ relate_mut_ages = <<>>
    /\ geva_mut_ages = <<>>
    /\ run_results = <<>>

----------------------------------------------------------------------------
(* run_evaluation.main *)

\* the keys of name_map, in the order of its items: the names of the figure
\* classes the model follows
NameMap == <<"cpu_scaling_samplesize", "neutral_simulated_mutation_accuracy",
             "simulate_vanilla_ancient", "tsdate_chr20_accuracy">>

\* the figures main works on: every item of name_map for the name "all",
\* else name_map[args.name]
Selected(name) == IF name = "all" THEN NameMap ELSE <<name>>

\* the calls main makes on a figure it has instantiated, in order
FigureCallsInferenceFirst(setup, inference) ==
    (IF inference THEN <<"run_multiprocessing">> ELSE <<>>)
        \o (IF setup THEN <<"setup">> ELSE <<>>)

FigureCalls(setup, inference) ==
    (IF setup THEN <<"setup">> ELSE <<>>)
        \o (IF inference THEN <<"run_multiprocessing">> ELSE <<>>)

\* the calls of this invocation on a figure
CallsOfMain == FigureCalls(main_args.setup, main_args.inference)

\* fig = fig() / fig = name_map[args.name](): the next figure is instantiated,
\* once the calls on the one before have returned
MainInstantiate ==
    /\ main_pc = "figure"
    /\ main_fig < Len(Selected(main_args.name))
    /\ main_fig > 0 => main_step = Len(CallsOfMain)
    /\ main_fig' = main_fig + 1
    /\ main_step' = 0
    /\ main_log' = Append(main_log, <<Selected(main_args.name)[main_fig + 1], "instantiated">>)
    /\ UNCHANGED <<main_args, main_pc, main_error>>
    /\ UNCHANGED <<agesVars, kcVars, genVars, runVars, batchVars, vcfVars, cmpVars, clearVars>>

\* fig.setup() or fig.run_multiprocessing(fig.inference, ...) is called
MainCall ==
    /\ main_pc = "figure"
    /\ main_fig > 0
    /\ main_step < Len(CallsOfMain)
    /\ main_pc' = "called"
    /\ main_log' = Append(main_log, <<Selected(main_args.name)[main_fig],
                                      CallsOfMain[main_step + 1], "called">>)
    /\ UNCHANGED <<main_args, main_fig, main_step, main_error>>
    /\ UNCHANGED <<agesVars, kcVars, genVars, runVars, batchVars, vcfVars, cmpVars, clearVars>>

\* the call returns, or it raises: main has no handler, so the exception
\* leaves main
MainCallEnds ==
    /\ main_pc = "called"
    /\ \E outcome \in {"returned", "raised"} :
          /\ main_log' = Append(main_log, <<Selected(main_args.name)[main_fig],
                                            CallsOfMain[main_step + 1], outcome>>)
          /\ IF outcome = "returned"
             THEN /\ main_step' = main_step + 1
                  /\ main_pc' = "figure"
                  /\ UNCHANGED main_error
             ELSE /\ main_pc' = "raised"
                  /\ main_error' = "exception of the call"
                  /\ UNCHANGED main_step
    /\ UNCHANGED <<main_args, main_fig>>
    /\ UNCHANGED <<agesVars, kcVars, genVars, runVars, batchVars, vcfVars, cmpVars, clearVars>>

\* after the figures: if not args.setup and not args.inference: raise ValueError
MainCheckFlags ==
    /\ main_pc = "figure"
    /\ main_fig = Len(Selected(main_args.name))
    /\ main_step = Len(CallsOfMain)
    /\ IF ~main_args.setup /\ ~main_args.inference
       THEN /\ main_pc' = "raised"
            /\ main_error' = "ValueError"
       ELSE /\ main_pc' = "returned"
            /\ UNCHANGED main_error
    /\ UNCHANGED <<main_args, main_fig, main_step, main_log>>
    /\ UNCHANGED <<agesVars, kcVars, genVars, runVars, batchVars, vcfVars, cmpVars, clearVars>>

\* the state of main after the command line is parsed
MainStart ==
    /\ main_pc = "figure"
    /\ main_fig = 0
    /\ main_step = 0
    /\ main_error = "none"
    /\ main_log = <<>>

\* main is not called
MainIdle ==
    /\ main_args = [name |-> "all", setup |-> FALSE, inference |-> FALSE]
    /\ main_pc = "idle"
    /\ main_fig = 0
    /\ main_step = 0
    /\ main_error = "none"
    /\ main_log = <<>>

----------------------------------------------------------------------------
(* CpuScalingSampleSize.clear *)

\* names are sequences of characters; the figure's name, a suffix and the
\* "relate_" prefix are each kept as one element, which no digit and no "_"
\* equals, so a prefix of elements is a prefix of characters

\* str(n) for n >= 0
RECURSIVE Digits(_)
Digits(n) == IF n < 10 THEN <<ToString(n)>> ELSE Digits(n \div 10) \o <<ToString(n % 10)>>

\* DataGeneration.setup: filename = self.name + "_" + str(param) + "_" + str(index)
ReplicateFilename(param, rep) ==
    <<"cpu_scaling_samplesize">> \o <<"_">> \o Digits(param) \o <<"_">> \o Digits(rep)

\* the files setup and the tools leave next to a replicate
Suffixes == {".trees", ".samples"}

\* relate_dir of inference: "relate_" + row["filename"], in data_dir
RelateSubdir(filename) == <<"relate_">> \o filename

\* the result file of the figure: self.name + ".csv"
ResultsCsv == <<"cpu_scaling_samplesize", ".csv">>

\* str.startswith and str.endswith
StartsWith(name, prefix) ==
    Len(prefix) <= Len(name) /\ SubSeq(name, 1, Len(prefix)) = prefix

EndsWith(name, suffix) == Len(name) > 0 /\ name[Len(name)] = suffix

\* the test of the first loop of clear
RemovesFile(file, filename) == StartsWith(file, filename) /\ ~EndsWith(file, ".csv")

\* the test of the second loop of clear, on paths relative to data_dir
RemovesDir(dir, filename) == StartsWith(dir, RelateSubdir(filename))

\* inference reaches self.clear(row["filename"]): for file in os.listdir(...)
ClearCall ==
    /\ clear_pc = "call"
    /\ clear_pc' = "listdir"
    /\ clear_listing' = dir_files \cup dir_subdirs
    /\ UNCHANGED <<dir_files, dir_subdirs, clear_filename, clear_removed>>
    /\ UNCHANGED <<agesVars, kcVars, genVars, runVars, batchVars, vcfVars, cmpVars, mainVars>>

\* one iteration of the first loop: os.remove of a matching name
ClearFile ==
    /\ clear_pc = "listdir"
    /\ \E file \in clear_listing :
          /\ clear_listing' = clear_listing \ {file}
          /\ IF RemovesFile(file, clear_filename)
             THEN IF file \in dir_subdirs
                  THEN \* os.remove of a directory raises
                       /\ clear_pc' = "raised"
                       /\ UNCHANGED <<dir_files, clear_removed>>
                  ELSE /\ dir_files' = dir_files \ {file}
                       /\ clear_removed' = clear_removed \cup {file}
                       /\ UNCHANGED clear_pc
             ELSE UNCHANGED <<dir_files, clear_removed, clear_pc>>
    /\ UNCHANGED <<dir_subdirs, clear_filename>>
    /\ UNCHANGED <<agesVars, kcVars, genVars, runVars, batchVars, vcfVars, cmpVars, mainVars>>

\* the first loop ends: for relate_subdir in os.walk(self.data_dir); the walk
\* yields data_dir itself, the empty relative path, and then its directories
ClearWalk ==
    /\ clear_pc = "listdir"
    /\ clear_listing = {}
    /\ clear_pc' = "walk"
    /\ clear_listing' = {<<>>} \cup dir_subdirs
    /\ UNCHANGED <<dir_files, dir_subdirs, clear_filename, clear_removed>>
    /\ UNCHANGED <<agesVars, kcVars, genVars, runVars, batchVars, vcfVars, cmpVars, mainVars>>

\* one iteration of the second loop: shutil.rmtree of a matching directory
ClearSubdir ==
    /\ clear_pc = "walk"
    /\ \E dir \in clear_listing :
          /\ clear_listing' = clear_listing \ {dir}
          /\ IF RemovesDir(dir, clear_filename)
             THEN /\ dir_subdirs' = dir_subdirs \ {dir}
                  /\ clear_removed' = clear_removed \cup {dir}
             ELSE UNCHANGED <<dir_subdirs, clear_removed>>
    /\ UNCHANGED <<dir_files, clear_filename, clear_pc>>
    /\ UNCHANGED <<agesVars, kcVars, genVars, runVars, batchVars, vcfVars, cmpVars, mainVars>>

\* the walk ends and clear returns
ClearReturn ==
    /\ clear_pc = "walk"
    /\ clear_listing = {}
    /\ clear_pc' = "returned"
    /\ UNCHANGED <<dir_files, dir_subdirs, clear_filename, clear_listing, clear_removed>>
    /\ UNCHANGED <<agesVars, kcVars, genVars, runVars, batchVars, vcfVars, cmpVars, mainVars>>

\* clear is not called
ClearIdle ==
    /\ dir_files = {}
    /\ dir_subdirs = {}
    /\ clear_filename = <<>>
    /\ clear_pc = "idle"
    /\ clear_listing = {}
    /\ clear_removed = {}

----------------------------------------------------------------------------
(* Inputs *)

\* site sequences of a tree sequence with nt trees: positions strictly
\* increasing, sites grouped by tree in tree order
SiteSeqs(nt, maxSites, maxMuts, positions) ==
    UNION {
        {s \in [1 .. n -> [position : positions, tree : 1 .. nt,
                           mutations : MutSeqs(maxMuts)]] :
            \A i \in 1 .. (n - 1) :
                /\ s[i].position < s[i + 1].position
                /\ s[i].tree <= s[i + 1].tree}
        : n \in 0 .. maxSites}

\* the state on entry to get_mut_pos_df
AgesStart ==
    /\ pc = "trees"
    /\ tree_index = 0
    /\ tree = [n \in Nodes |-> NULL]
    /\ site_index = 0
    /\ site_ages = <<>>
    /\ excluded = {}
    /\ visited_in = <<>>
    /\ mut_df = <<>>

\* Tree sequences of one tree with any node times, and one site with up to
\* MaxMuts mutations
InitAges ==
    /\ dates \in [Nodes -> Times]
    /\ num_trees = 1
    /\ ts_sites \in SiteSeqs(num_trees, 1, MaxMuts, {2})
    /\ exclude_root \in BOOLEAN
    /\ AgesStart

\* Tree sequences of one tree whose node i has time i, with up to MaxSites
\* sites at half-unit positions, each with at most one mutation
InitPos ==
    /\ dates = [n \in Nodes |-> n]
    /\ num_trees = 1
    /\ ts_sites \in SiteSeqs(num_trees, MaxSites, 1, 1 .. MaxPos)
    /\ exclude_root \in BOOLEAN
    /\ AgesStart

\* Tree sequences of up to MaxTrees trees whose node i has time i, with up to
\* two sites, each with at most one mutation
InitTrees ==
    /\ dates = [n \in Nodes |-> n]
    /\ num_trees \in 1 .. MaxTrees
    /\ ts_sites \in SiteSeqs(num_trees, 2, 1, {2, 4})
    /\ exclude_root \in BOOLEAN
    /\ AgesStart

\* breakpoint sequences of a genealogy of n trees and sequence length len
BreakpointSeqs(n, len) ==
    {b \in [1 .. (n + 1) -> 0 .. len] :
        /\ b[1] = 0
        /\ b[n + 1] = len
        /\ \A i \in 1 .. n : b[i] < b[i + 1]}

Genealogies ==
    UNION {
        {[breakpoints |-> b, trees |-> t] :
            b \in BreakpointSeqs(n, len), t \in [1 .. n -> TreeShapes]}
        : n \in 1 .. MaxKcTrees, len \in 1 .. MaxSeqLen}

\* the state of kc_distance_ts when it is not running
KcStart ==
    /\ kc_pc = "idle"
    /\ ts_1 = [breakpoints |-> <<0, 1>>, trees |-> <<Unbound>>]
    /\ ts_2 = [breakpoints |-> <<0, 1>>, trees |-> <<Unbound>>]
    /\ comb_breakpoints = <<>>
    /\ comb_isin_1 = <<>>
    /\ comb_isin_2 = <<>>
    /\ index = 0
    /\ trees_1 = 0
    /\ trees_2 = 0
    /\ tree_1 = Unbound
    /\ tree_2 = Unbound
    /\ kc = 0
    /\ last_breakpoint = 0
    /\ compared = <<>>
    /\ kc_results = <<>>

InitKc ==
    /\ genealogies \in Genealogies \X Genealogies
    /\ lambda_param \in 0 .. LambdaSteps
    /\ KcStart

\* no tree sequence is given to get_mut_pos_df
AgesIdle ==
    /\ dates = [n \in Nodes |-> 0]
    /\ num_trees = 0
    /\ ts_sites = <<>>
    /\ exclude_root = FALSE
    /\ AgesStart

\* no genealogies are given to kc_distance_ts
KcIdle ==
    /\ genealogies = <<>>
    /\ lambda_param = 0
    /\ KcStart

\* a row of an empirical error matrix, probabilities in tenths; freq in
\* units of 1 / NumSamples
NoErrorRow(f) ==
    [freq |-> f, p00 |-> 10, p01 |-> 0, p02 |-> 0, p10 |-> 0, p11 |-> 10, p12 |-> 0,
     p20 |-> 0, p21 |-> 0, p22 |-> 10]

NoisyRow(f) ==
    [freq |-> f, p00 |-> 8, p01 |-> 1, p02 |-> 1, p10 |-> 1, p11 |-> 8, p12 |-> 1,
     p20 |-> 1, p21 |-> 1, p22 |-> 8]

ErrorMatrices == {<<NoErrorRow(0)>>, <<NoisyRow(0), NoErrorRow(NumSamples)>>}

\* the state on entry to generate_samples
GenStart ==
    /\ gen_pc = "setup"
    /\ sequencing_error = "unset"
    /\ seq_error_rate = 0
    /\ aa_error_by_site = <<>>
    /\ n_bad_sites = 0
    /\ n_variants = 0
    /\ sample_data = <<>>
    /\ flipped_sites = {}

\* Tree sequences of 1 to MaxGenSites sites (generate_samples asserts that
\* there is a site) over NumSamples samples; seq_error is "", "0" or "0.01",
\* or a matrix when an empirical model is named; aa_error is "" or a multiple
\* of 1 / AaSteps up to 1 + 1 / AaSteps
InitGen ==
    /\ variants \in UNION {[1 .. n -> [1 .. NumSamples -> {0, 1}]] : n \in 1 .. MaxGenSites}
    /\ aa_error \in {<<>>} \cup {<<k>> : k \in 0 .. (AaSteps + 1)}
    /\ \/ /\ empirical_seq_err_name = ""
          /\ seq_error \in {<<>>, <<0>>, <<1>>}
          /\ error_probs = <<>>
       \/ /\ empirical_seq_err_name = "empirical"
          /\ seq_error = <<>>
          /\ error_probs \in ErrorMatrices
    /\ GenStart

\* generate_samples is not called
GenIdle ==
    /\ variants = <<>>
    /\ aa_error = <<>>
    /\ seq_error = <<>>
    /\ error_probs = <<>>
    /\ empirical_seq_err_name = ""
    /\ GenStart

NextAges == NextTree \/ VisitSite \/ ReturnAges \/ FromDict \/ SortDates \/ GroupFirst

NextKc == KcCall \/ KcIterate \/ KcReturn

NextGen == GenSetup \/ GenAddSite \/ GenFinalise

NextRun ==
    \/ RunnerCall
    \/ RelateEnter
    \/ CheckOutput
    \/ CallAwk
    \/ TimeCmdStep
    \/ LoadOutput
    \/ RelateSetFlags
    \/ RelateLeave
    \/ RunnerReturn

NextBatch ==
    \/ SetupSimulate
    \/ SetupSummarize
    \/ BatchStart
    \/ CallFunction
    \/ PoolDispatch
    \/ PoolFinish
    \/ PoolCollect
    \/ SerialStep
    \/ BatchWrite

\* the genotype arrays of a site over n samples that the inputs draw from
VcfGenotypes(n) ==
    {[i \in 1 .. n |-> 0], [i \in 1 .. n |-> i % 2], [i \in 1 .. n |-> IF i = 1 THEN 1 ELSE 0]}

\* Sample data of 1 to MaxSites sites at increasing half-unit positions over
\* 1 to MaxVcfSamples samples
InitVcf ==
    /\ \E S \in SUBSET (1 .. MaxPos) :
          /\ Cardinality(S) \in 1 .. MaxSites
          /\ sites_position = SortedSeqOf(S)
    /\ \E n \in 1 .. MaxVcfSamples :
          sd_genotypes \in [1 .. Len(sites_position) -> VcfGenotypes(n)]
    /\ VcfStart

NextVcf == VcfCall \/ VcfSite \/ VcfReturn

\* the edges of a genealogy in which f[c][x] is the parent of child c over
\* [x, x + 1), or NULL: one edge per maximal run of the same parent
EdgesOf(f) ==
    {e \in [left : 0 .. (SequenceLength - 1), right : 1 .. SequenceLength,
            parent : CmpNodes, child : DOMAIN f] :
        /\ e.left < e.right
        /\ \A x \in e.left .. (e.right - 1) : f[e.child][x] = e.parent
        /\ e.left = 0 \/ f[e.child][e.left - 1] # e.parent
        /\ e.right = SequenceLength \/ f[e.child][e.right] # e.parent}

\* the edge table in the order of tskit: by parent, then child, then left
RECURSIVE EdgeTable(_)
EdgeTable(S) ==
    IF S = {} THEN <<>>
    ELSE LET key(e) == (e.parent * 10 + e.child) * 10 + e.left
             m == CHOOSE e \in S : \A o \in S : key(e) <= key(o)
         IN <<m>> \o EdgeTable(S \ {m})

\* the parent maps of the children 0 and 1: a parent is an older node
ParentMaps ==
    {<<f0, f1>> : f0 \in [0 .. (SequenceLength - 1) -> {NULL, 1, 2}],
                  f1 \in [0 .. (SequenceLength - 1) -> {NULL, 2}]}

\* the map of the genealogy of one tree in which node 2 is the parent of both
OneTree == <<[x \in 0 .. (SequenceLength - 1) |-> 2], [x \in 0 .. (SequenceLength - 1) |-> 2]>>

ChildMap(m) == [c \in {0, 1} |-> m[c + 1]]

\* one or two sites at half-unit positions inside the sequence, the
\* mutations of each drawn from muts
CmpSiteSeqs(muts) ==
    UNION {
        {[i \in 1 .. Len(SortedSeqOf(S)) |->
              [position |-> SortedSeqOf(S)[i], mutations |-> ms[i]]]
            : ms \in [1 .. Cardinality(S) -> muts]}
        : S \in {T \in SUBSET (0 .. (2 * SequenceLength - 1)) : Cardinality(T) \in 1 .. 2}}

\* Genealogies of any valid edge table with sites of one mutation, without
\* relate and geva estimates
InitDiffs ==
    /\ \E m \in ParentMaps : cmp_edges = EdgeTable(EdgesOf(ChildMap(m)))
    /\ cmp_sites \in CmpSiteSeqs({<<0>>})
    /\ relate_ages = <<>>
    /\ geva = <<>>
    /\ CmpStart

\* Genealogies of one tree with sites of one or two mutations (node 2 is the
\* root), with or without a relate estimate at every integer position, with
\* or without geva estimates at the even positions
InitJoin ==
    /\ cmp_edges = EdgeTable(EdgesOf(ChildMap(OneTree)))
    /\ cmp_sites \in CmpSiteSeqs({<<0>>, <<2>>, <<0, 1>>})
    /\ relate_ages \in {<<>>, [i \in 1 .. (SequenceLength + 1) |->
                                   [pos_of_snp |-> i - 1, age |-> i]]}
    /\ geva \in {<<>>,
                 <<[positions |-> [i \in 1 .. (SequenceLength + 1) |-> i - 1],
                    ages |-> [i \in 1 .. ((SequenceLength \div 2) + 1) |->
                                  <<2 * (i - 1), i>>]]>>}
    /\ CmpStart

InitCompare == InitDiffs \/ InitJoin

NextCompare == CmpNextDiff \/ CmpSiteMutations \/ CmpReturnAges \/ CmpMutation \/ CmpFrame

\* every command line the parser accepts
InitMain ==
    /\ main_args \in [name : {"all"} \cup {NameMap[i] : i \in 1 .. Len(NameMap)},
                      setup : BOOLEAN, inference : BOOLEAN]
    /\ MainStart

NextMain == MainInstantiate \/ MainCall \/ MainCallEnds \/ MainCheckFlags

\* the replicates whose files the data directory can hold: the first sample
\* sizes of the figure, and the indexes of the replicates
Replicates ==
    {ReplicateFilename(param, rep) : param \in {10, 260}, rep \in 0 .. MaxReplicateIndex}

\* the files of a replicate
FilesOf(filename) == {filename \o <<suffix>> : suffix \in Suffixes}

\* the data directory holds the result file, the files of the replicate that
\* completed and its Relate directory, and the files, and possibly the Relate
\* directory, of another replicate that is not cleared yet
InitClear ==
    /\ clear_filename \in Replicates
    /\ \E other \in Replicates \ {clear_filename} :
          /\ dir_files = {ResultsCsv} \cup FilesOf(clear_filename) \cup FilesOf(other)
          /\ dir_subdirs \in {{RelateSubdir(clear_filename)},
                              {RelateSubdir(clear_filename), RelateSubdir(other)}}
    /\ clear_pc = "call"
    /\ clear_listing = {}
    /\ clear_removed = {}

NextClear == ClearCall \/ ClearFile \/ ClearWalk \/ ClearSubdir \/ ClearReturn

ToolsIdle == VcfIdle /\ CmpIdle /\ MainIdle /\ ClearIdle

HarnessIdle == RunStart /\ BatchIdle /\ ToolsIdle

InitSpecAges == InitAges /\ KcIdle /\ GenIdle /\ HarnessIdle

InitSpecPos == InitPos /\ KcIdle /\ GenIdle /\ HarnessIdle

InitSpecTrees == InitTrees /\ KcIdle /\ GenIdle /\ HarnessIdle

InitSpecKc == InitKc /\ AgesIdle /\ GenIdle /\ HarnessIdle

InitSpecGen == InitGen /\ AgesIdle /\ KcIdle /\ HarnessIdle

InitSpecRun == RunStart /\ AgesIdle /\ KcIdle /\ GenIdle /\ BatchIdle /\ ToolsIdle

InitSpecBatch == InitBatch /\ AgesIdle /\ KcIdle /\ GenIdle /\ RunStart /\ ToolsIdle

SpecAges == InitSpecAges /\ [][NextAges]_vars

SpecPos == InitSpecPos /\ [][NextAges]_vars

SpecTrees == InitSpecTrees /\ [][NextAges]_vars

SpecKc == InitSpecKc /\ [][NextKc]_vars

SpecGen == InitSpecGen /\ [][NextGen]_vars

SpecRun == InitSpecRun /\ [][NextRun]_vars

SpecBatch == InitSpecBatch /\ [][NextBatch]_vars

InitSpecVcf ==
    InitVcf /\ AgesIdle /\ KcIdle /\ GenIdle /\ RunStart /\ BatchIdle /\ CmpIdle /\ MainIdle
        /\ ClearIdle

SpecVcf == InitSpecVcf /\ [][NextVcf]_vars

InitSpecCompare ==
    InitCompare /\ AgesIdle /\ KcIdle /\ GenIdle /\ RunStart /\ BatchIdle /\ VcfIdle /\ MainIdle
        /\ ClearIdle

SpecCompare == InitSpecCompare /\ [][NextCompare]_vars

InitSpecMain ==
    InitMain /\ AgesIdle /\ KcIdle /\ GenIdle /\ RunStart /\ BatchIdle /\ VcfIdle /\ CmpIdle
        /\ ClearIdle

SpecMain == InitSpecMain /\ [][NextMain]_vars

InitSpecClear ==
    InitClear /\ AgesIdle /\ KcIdle /\ GenIdle /\ RunStart /\ BatchIdle /\ VcfIdle /\ CmpIdle
        /\ MainIdle

SpecClear == InitSpecClear /\ [][NextClear]_vars

----------------------------------------------------------------------------
(* Properties of get_mut_ages_dict and get_mut_pos_df *)

\* get_mut_ages_dict has returned (its result is site_ages)
AgesReturned == pc # "trees"

SiteHasMutation(i) == ts_sites[i].mutations # <<>>

\* the time of the oldest node of the genealogy
OldestTime == SetMax({dates[n] : n \in Nodes})

\* the mutations of visited site i that did not take the continue branch
Included(i) == {m \in 1 .. Len(ts_sites[i].mutations) : <<i, m>> \notin excluded}

\* every aggregated mutation of visited site i sits on a node that has a parent
\* in the tree of the site
IncludedHaveParents(i) ==
    \A m \in Included(i) : TreeParent(visited_in[i], ts_sites[i].mutations[m]) # NULL

\* the parent of the node is the root of the local tree
ParentIsRoot(par, node) == par[node] # NULL /\ par[par[node]] = NULL

\* C5: for a genealogy with at least one mutation (times of children below
\* those of their parents, exclude_root left at its default), the returned dict
\* is not empty and every age in it is >= 0 and <= the oldest node's time
\* (ages are squares here, so the upper limit is the square of that time).
C5_AgesWithinRange ==
    (AgesReturned /\ ~exclude_root /\ \E i \in 1 .. Len(ts_sites) : SiteHasMutation(i))
        => /\ site_ages # <<>>
           /\ \A i \in 1 .. Len(site_ages) :
                  /\ 0 <= site_ages[i][2]
                  /\ site_ages[i][2] <= OldestTime * OldestTime

\* C6: the returned dict has exactly one entry, with a finite age, for each
\* position at which a mutation exists, and no entry for any other position.
C6_OneFiniteAgePerMutatedPosition ==
    AgesReturned
        => /\ DictKeys(site_ages) =
                  {ts_sites[i].position :
                      i \in {k \in 1 .. Len(ts_sites) : SiteHasMutation(k)}}
           /\ Cardinality(DictKeys(site_ages)) = Len(site_ages)
           /\ \A i \in 1 .. Len(site_ages) : site_ages[i][2] # NegInf

C8_OrderIndependent ==
    \A i \in 1 .. site_index :
        LET muts == ts_sites[i].mutations IN
        \A p \in Perms(Len(muts)) :
            MutLoop(visited_in[i], [k \in 1 .. Len(muts) |-> muts[p[k]]], NegInf)
                = DictGet(site_ages, ts_sites[i].position)

\* a site whose two mutations have different ages, the second one the older
C8_Witness ==
    /\ site_index = 1
    /\ Len(ts_sites[1].mutations) = 2
    /\ Included(1) = {1, 2}
    /\ MutStep(visited_in[1], ts_sites[1].mutations[1], NegInf)
         < MutStep(visited_in[1], ts_sites[1].mutations[2], NegInf)
    /\ DictGet(site_ages, ts_sites[1].position)
         = MutStep(visited_in[1], ts_sites[1].mutations[2], NegInf)

\* C9: with exclude_root, the mutations that are left out of the aggregation
\* are exactly those whose parent node is the root of the local tree of their
\* site.
C9_ExcludesChildrenOfLocalRoot ==
    exclude_root =>
        \A i \in 1 .. site_index :
            \A m \in 1 .. Len(ts_sites[i].mutations) :
                (<<i, m>> \in excluded)
                    <=> ParentIsRoot(visited_in[i], ts_sites[i].mutations[m])

\* C10: the table returned by get_mut_pos_df has exactly one row per distinct
\* rounded position, and the value of a row is the largest age among the
\* positions that round to it.
C10_OneRowPerRoundedPosition ==
    pc = "done" =>
        LET keys == {NpRound(site_ages[i][1]) : i \in 1 .. Len(site_ages)} IN
        /\ {mut_df[j][1] : j \in 1 .. Len(mut_df)} = keys
        /\ Len(mut_df) = Cardinality(keys)
        /\ \A j \in 1 .. Len(mut_df) :
               mut_df[j][2] =
                   SetMax({site_ages[i][2] :
                       i \in {k \in 1 .. Len(site_ages) :
                                 NpRound(site_ages[k][1]) = mut_df[j][1]}})

\* two positions that round to the same integer, the later one the older
C10_Witness ==
    /\ pc = "done"
    /\ \E i, k \in 1 .. Len(site_ages) :
           /\ i < k
           /\ NpRound(site_ages[i][1]) = NpRound(site_ages[k][1])
           /\ NegInf < site_ages[i][2]
           /\ site_ages[i][2] < site_ages[k][2]
    /\ Len(mut_df) < Len(site_ages)

\* the dict d with its items inserted in the order p
Reinserted(d, p) == [i \in 1 .. Len(d) |-> d[p[i]]]

\* the table get_mut_pos_df makes of the dict d
MutPosDf(d) == GroupByFirst(SortValues(FromDictRounded(d)))

\* C11: the table returned by get_mut_pos_df is the one that the same steps
\* yield again from the same dict, and the one they yield from the dict with
\* its positions inserted in any other order: positions that round to the same
\* integer are resolved to the same row every time.
C11_TableIndependentOfInsertionOrder ==
    pc = "done" =>
        /\ mut_df = MutPosDf(site_ages)
        /\ \A p \in Perms(Len(site_ages)) : MutPosDf(Reinserted(site_ages, p)) = mut_df

\* a dict of three positions, the last two rounding to the same integer with
\* different ages, the younger one inserted first
C11_Witness ==
    /\ pc = "done"
    /\ Len(site_ages) = 3
    /\ NpRound(site_ages[2][1]) = NpRound(site_ages[3][1])
    /\ NpRound(site_ages[1][1]) # NpRound(site_ages[2][1])
    /\ NegInf < site_ages[2][2]
    /\ site_ages[2][2] < site_ages[3][2]
    /\ Len(mut_df) = 2
    /\ mut_df[2][2] = site_ages[3][2]

----------------------------------------------------------------------------
(* Properties of kc_distance_ts *)

\* both calls, on (A, B) and on (B, A), have returned
BothReturned == Len(kc_results) = 2

SameTopology(a, b) ==
    /\ a.breakpoints = b.breakpoints
    /\ \A k \in 1 .. Len(a.trees) : a.trees[k].m = b.trees[k].m

\* C3: kc_distance_ts(A, B, lambda) and kc_distance_ts(B, A, lambda) return the
\* same value (the same quotient), for genealogies with any breakpoints and
\* sequence lengths.
C3_DistanceSymmetric ==
    BothReturned =>
        /\ kc_results[1].kind = kc_results[2].kind
        /\ kc_results[1].num * kc_results[2].den
             = kc_results[2].num * kc_results[1].den

\* two genealogies of different lengths and breakpoints, at a distance above 0
C3_Witness ==
    /\ BothReturned
    /\ genealogies[1].breakpoints[Len(genealogies[1].breakpoints)]
         < genealogies[2].breakpoints[Len(genealogies[2].breakpoints)]
    /\ Len(genealogies[1].trees) = 2
    /\ Len(genealogies[2].trees) = 2
    /\ genealogies[1].breakpoints[2] # genealogies[2].breakpoints[2]
    /\ kc_results[1].kind = "value"
    /\ kc_results[1].num > 0

\* C4: for two genealogies with the same breakpoints and the same topology in
\* every interval, kc_distance_ts with weighting parameter 0 returns exactly 0.
C4_SameTopologyAtDistanceZero ==
    (/\ Len(kc_results) >= 1
     /\ lambda_param = 0
     /\ SameTopology(genealogies[1], genealogies[2]))
        => /\ kc_results[1].kind = "value"
           /\ kc_results[1].num = 0

\* two genealogies of two trees with the same topology and other branch lengths
C4_Witness ==
    /\ Len(kc_results) >= 1
    /\ lambda_param = 0
    /\ SameTopology(genealogies[1], genealogies[2])
    /\ Len(genealogies[1].trees) = 2
    /\ \A k \in 1 .. 2 : genealogies[1].trees[k].M # genealogies[2].trees[k].M
    /\ kc_results[1] = [kind |-> "value", num |-> 0,
                        den |-> genealogies[1].breakpoints[3]]

\* a call has returned and no other call has started
KcReturned == kc_pc = "idle" /\ Len(kc_results) >= 1

\* the end coordinate (sequence length) of a genealogy
EndOf(g) == g.breakpoints[Len(g.breakpoints)]

RECURSIVE SumOfLengths(_)
SumOfLengths(iv) ==
    IF iv = <<>> THEN 0
    ELSE (iv[Len(iv)].right - iv[Len(iv)].left) + SumOfLengths(SubSeq(iv, 1, Len(iv) - 1))

RECURSIVE SumOfTerms(_)
SumOfTerms(iv) ==
    IF iv = <<>> THEN 0
    ELSE LET v == iv[Len(iv)]
         IN TreeKC(ts_1.trees[v.t1], ts_2.trees[v.t2], lambda_param) * (v.right - v.left)
                + SumOfTerms(SubSeq(iv, 1, Len(iv) - 1))

\* C12: the value a call returns is the sum, over the sub-intervals whose
\* distance was accumulated, of distance times length, divided by the
\* normalizer last_breakpoint - comb_breakpoints[0]; the lengths of those
\* sub-intervals sum exactly to the normalizer, and the normalizer is > 0.
C12_NormalizedByComparedLength ==
    KcReturned =>
        LET r == kc_results[Len(kc_results)] IN
        /\ r.kind = "value"
        /\ r.den = last_breakpoint - comb_breakpoints[1]
        /\ r.den > 0
        /\ SumOfLengths(compared) = r.den
        /\ r.num = SumOfTerms(compared)

\* a call on genealogies of different lengths that accumulated two
\* sub-intervals, under different trees of the longer genealogy, at a distance
\* above 0
C12_Witness ==
    /\ KcReturned
    /\ Len(compared) = 2
    /\ compared[1].t1 # compared[2].t1
    /\ EndOf(ts_1) > EndOf(ts_2)
    /\ kc_results[Len(kc_results)].kind = "value"
    /\ kc_results[Len(kc_results)].num > 0
    /\ kc_results[Len(kc_results)].den = EndOf(ts_2)

\* the smaller of the end coordinates of the two genealogies of the call
SmallerEnd == IF EndOf(ts_1) < EndOf(ts_2) THEN EndOf(ts_1) ELSE EndOf(ts_2)

\* C13: no call raises (neither from an unbound tree nor from reading
\* comb_breakpoints[index + 1] past the end); no accumulated sub-interval
\* reaches beyond the smaller end coordinate of the two genealogies; and
\* the loop stops, by the StopIteration branch, at that coordinate.
C13_TruncatesAtSmallerEnd ==
    /\ kc_pc # "raised"
    /\ \A k \in 1 .. Len(kc_results) : kc_results[k].kind # "raised"
    /\ kc_pc # "idle" =>
           /\ index + 1 <= Len(comb_breakpoints)
           /\ \A k \in 1 .. Len(compared) : compared[k].right <= SmallerEnd
    /\ kc_pc = "divide" =>
           /\ last_breakpoint = SmallerEnd
           /\ last_breakpoint = comb_breakpoints[index + 1]
           /\ SumOfLengths(compared) = SmallerEnd

\* the loop has stopped before the end of the merged breakpoints: the second
\* genealogy is the shorter one and the first has a breakpoint beyond its end
C13_Witness ==
    /\ kc_pc = "divide"
    /\ EndOf(ts_2) < EndOf(ts_1)
    /\ index + 1 < Len(comb_breakpoints) - 1
    /\ last_breakpoint = EndOf(ts_2)
    /\ compared # <<>>

\* every call returns a value
KcAlwaysValue == \A k \in 1 .. Len(kc_results) : kc_results[k].kind = "value"

\* the number of the first n merged breakpoints that the array isin marks
MarkedUpTo(isin, n) == Cardinality({i \in 1 .. n : isin[i]})

\* the sub-interval c lies within the interval of the tree number t of g
WithinTree(g, t, c) ==
    /\ t \in 1 .. Len(g.trees)
    /\ g.breakpoints[t] <= c.left
    /\ c.right <= g.breakpoints[t + 1]

\* C24: while the loop runs, each iterator has yielded as many trees as there
\* are breakpoints of its own genealogy among the merged breakpoints visited,
\* tree_1 and tree_2 are the trees yielded last, and every sub-interval whose
\* distance was accumulated was compared on bound trees whose intervals in
\* ts_1 and ts_2 contain it.
C24_IteratorsFollowOwnBreakpoints ==
    /\ kc_pc = "loop" =>
          /\ trees_1 = MarkedUpTo(comb_isin_1, index)
          /\ trees_2 = MarkedUpTo(comb_isin_2, index)
          /\ trees_1 > 0 => tree_1 = ts_1.trees[trees_1]
          /\ trees_2 > 0 => tree_2 = ts_2.trees[trees_2]
    /\ \A j \in 1 .. Len(compared) :
          /\ WithinTree(ts_1, compared[j].t1, compared[j])
          /\ WithinTree(ts_2, compared[j].t2, compared[j])
    /\ kc_pc # "raised"

\* two sub-intervals were accumulated over which ts_1 kept its tree while
\* ts_2 moved to its next one, of another shape
C24_Witness ==
    /\ kc_pc = "loop"
    /\ Len(compared) = 2
    /\ compared[1].t1 = compared[2].t1
    /\ compared[1].t2 + 1 = compared[2].t2
    /\ ts_2.trees[1] # ts_2.trees[2]
    /\ tree_2 = ts_2.trees[2]

----------------------------------------------------------------------------
(* Properties of generate_samples *)

\* C1: with sequencing error 0 and no empirical model, make_no_errors is
\* selected, its assertion holds, and every site that is stored without a
\* polarity flip has the genotypes of the site of the tree sequence.
C1_NoErrorsKeepsGenotypes ==
    (empirical_seq_err_name = "" /\ FloatOrZero(seq_error) = 0 /\ gen_pc # "setup")
        => /\ sequencing_error = "make_no_errors"
           /\ gen_pc = "AssertionError" => FloatOrZero(aa_error) > AaSteps
           /\ gen_pc = "done" => Len(sample_data) = Len(variants)
           /\ \A i \in 1 .. Len(sample_data) :
                  i \notin flipped_sites => sample_data[i] = variants[i]

\* a run with seq_error "0" that stored two sites of different genotypes
C1_Witness ==
    /\ gen_pc = "done"
    /\ empirical_seq_err_name = ""
    /\ seq_error = <<0>>
    /\ flipped_sites = {}
    /\ Len(sample_data) >= 2
    /\ sample_data = variants
    /\ variants[1] # variants[2]

\* C2: for an error rate in (0, 1], neither assertion of the setup fails, and
\* the number of sites stored with flipped polarity is the integer nearest to
\* error_rate * n_sites (the even one of the two when both are as near).
C2_ExactFlipCount ==
    LET aa == FloatOrZero(aa_error)
        n == Len(variants)
        c == CountTrue(aa_error_by_site)
    IN (aa > 0 /\ aa <= AaSteps /\ gen_pc # "setup")
        => /\ gen_pc # "AssertionError"
           /\ c = n_bad_sites
           /\ 2 * Abs(c * AaSteps - aa * n) <= AaSteps
           /\ 2 * Abs(c * AaSteps - aa * n) = AaSteps => c % 2 = 0
           /\ gen_pc = "done" => Cardinality(flipped_sites) = c

\* a run whose flags were shuffled: two of three sites flipped (0.5 * 3 = 1.5
\* rounds to 2), the first site not among them
C2_Witness ==
    /\ gen_pc = "done"
    /\ 2 * FloatOrZero(aa_error) = AaSteps
    /\ Len(variants) = 3
    /\ flipped_sites = {2, 3}
    /\ sample_data[1] = variants[1]
    /\ sample_data[2] = FlipGenotypes(variants[2])

\* the array the error function returned for stored site i (a site with a
\* polarity error is stored as 1 - genotypes)
Returned(i) ==
    IF i \in flipped_sites THEN FlipGenotypes(sample_data[i]) ELSE sample_data[i]

\* the pair of individual j in the array g
PairOf(g, j) == <<g[2 * j - 1], g[2 * j]>>

\* C21: with a flat error probability or an empirical table, and genotype
\* arrays of even length, the error function returns for every site an array
\* of the shape of its input that holds only 0 and 1 (it never raises), and
\* the genotypes of the tree sequence are left as they were.
C21_InjectorReturnsSameShape ==
    (gen_pc # "setup" /\ NumSamples % 2 = 0 /\ FloatOrZero(aa_error) <= AaSteps)
        => /\ gen_pc \in {"variants", "done"}
           /\ Len(sample_data) = n_variants
           /\ \A i \in 1 .. Len(sample_data) :
                 /\ Len(Returned(i)) = Len(variants[i])
                 /\ \A k \in 1 .. Len(Returned(i)) : Returned(i)[k] \in {0, 1}

\* C25: in every row of the empirical table the two ordered heterozygotes are
\* resampled with the entries p10, p11, p12 into (0,0), themselves and (1,1),
\* with no weight on the heterozygote of the other order; a homozygote's
\* heterozygous weight is the same for both orders; and no stored site has a
\* heterozygote where the tree sequence has the one of the other order.
C25_HeterozygoteOrderingsSymmetric ==
    /\ \A k \in 1 .. Len(error_probs) :
          LET r == error_probs[k]
              w(count, o) ==
                  LET p == PairProbs(r, count)
                      at == {j \in 1 .. Len(p) : base_genotypes[p[j][1]] = o}
                  IN IF at = {} THEN 0 ELSE p[CHOOSE j \in at : TRUE][2]
          IN /\ w(1, <<0, 0>>) = 2 * r.p10 /\ w(2, <<0, 0>>) = 2 * r.p10
             /\ w(1, <<1, 0>>) = 2 * r.p11 /\ w(2, <<0, 1>>) = 2 * r.p11
             /\ w(1, <<1, 1>>) = 2 * r.p12 /\ w(2, <<1, 1>>) = 2 * r.p12
             /\ w(1, <<0, 1>>) = 0 /\ w(2, <<1, 0>>) = 0
             /\ w(0, <<1, 0>>) = w(0, <<0, 1>>)
             /\ w(0, <<1, 0>>) + w(0, <<0, 1>>) = 2 * r.p01
             /\ w(3, <<1, 0>>) = w(3, <<0, 1>>)
             /\ w(3, <<1, 0>>) + w(3, <<0, 1>>) = 2 * r.p21
    /\ sequencing_error = "make_seq_errors_genotype_model" =>
          \A i \in 1 .. Len(sample_data) :
              \A j \in 1 .. (Len(variants[i]) \div 2) :
                  LET true == PairOf(variants[i], j)
                      seen == PairOf(Returned(i), j)
                  IN true[1] # true[2] => (seen = true \/ seen[1] = seen[2])

\* a finished run under a noisy row of the table in which the heterozygote
\* (1, 0) was stored as the homozygote (1, 1) and the heterozygote (0, 1) kept
C25_Witness ==
    /\ gen_pc = "done"
    /\ sequencing_error = "make_seq_errors_genotype_model"
    /\ Len(error_probs) = 2
    /\ Len(sample_data) >= 2
    /\ PairOf(variants[1], 1) = <<1, 0>>
    /\ PairOf(Returned(1), 1) = <<1, 1>>
    /\ PairOf(variants[2], 1) = <<0, 1>>
    /\ PairOf(Returned(2), 1) = <<0, 1>>

----------------------------------------------------------------------------
(* Properties of time_cmd and the runners *)

\* C14: when the timed subprocess of a runner call exits with a non-zero
\* status, time_cmd raises its failure with the exit status and the captured
\* stderr, the failure leaves the runner (whichever it is), no cpu_time or
\* memory_use is assigned and nothing is returned; and no runner ever reads a
\* timing variable that was not assigned.
C14_FailedSubprocessRaisesOutOfRunner ==
    /\ time_cmd_failed =>
          /\ run_pc = "raised"
          /\ run_raised = [type |-> "ValueError", status |-> exit_status,
                           stderr |-> stderr]
          /\ exit_status # 0
          /\ cpu_time = <<>>
          /\ memory_use = <<>>
          /\ run_result = <<>>
    /\ run_raised.type # "UnboundLocalError"

\* run_geva after its timed subprocess exited with status 2 and a line on stderr
C14_Witness ==
    /\ runner = "run_geva"
    /\ time_cmd_failed
    /\ exit_status = 2
    /\ Len(stderr) = 3
    /\ run_pc = "raised"
    /\ run_raised.stderr = stderr

\* C27: the node table of the tree sequence run_relate returns has the rows
\* of the loaded one with the same times, the sample flag on exactly the first
\* ts.num_samples nodes, and every other column (population) as it was loaded.
C27_OnlySampleFlagsRewritten ==
    (runner = "run_relate" /\ run_pc \in {"read_csv", "chdir_back", "return", "returned"}) =>
        /\ Len(relate_ts_fixed) = Len(relate_ts)
        /\ \A i \in 1 .. Len(relate_ts) :
              /\ relate_ts_fixed[i].time = relate_ts[i].time
              /\ relate_ts_fixed[i].flags = (IF i <= num_samples THEN 1 ELSE 0)
              /\ relate_ts_fixed[i].population = relate_ts[i].population

\* C29: when a call of run_relate has ended, by a return or by an exception,
\* the working directory of the process is the one it had when the call began.
C29_RelateRestoresWorkingDirectory ==
    (runner = "run_relate" /\ run_pc \in {"returned", "raised"}) => cwd = cur_dir

----------------------------------------------------------------------------
(* Properties of setup and run_multiprocessing *)

\* run_multiprocessing has been called
BatchStarted == batch_pc \notin {"idle", "setup", "inference"}

\* the number of times x occurs in the sequence q
CountIn(q, x) == Cardinality({j \in 1 .. Len(q) : q[j] = x})

\* the number of rows of table k that the unit of work returns for row i
RowsOfUnit(i, k) == Len(UnitTable(figure, with_errors, i, k))

\* C15: when run_multiprocessing has finished over the rows of the table, the
\* result of every row was processed exactly once, every row of the metadata
\* table holds the row its own unit of work returned (and the saved file is
\* that table), every master table holds the row of every replicate's table
\* of its type exactly once and nothing else, and the master tables were
\* written as they are.
C15_EveryResultCollectedOnce ==
    (batch_pc = "done" /\ MapsOverRows(figure)) =>
        /\ \A i \in 1 .. Len(data) : CountIn(collected, i) = 1
        /\ Len(collected) = Len(data)
        /\ HasDataFile(figure) =>
              /\ \A i \in 1 .. Len(data) :
                    data[i] = ReturnedRow(file_at_start.rows[i], i)
              /\ Len(data) > 0 => data_file = CsvFile(data)
        /\ Len(master_dfs) = NumTables(figure)
        /\ \A k \in 1 .. Len(master_dfs) :
              /\ \A i \in 1 .. Len(data) :
                    CountIn(master_dfs[k], <<i, k>>) = RowsOfUnit(i, k)
              /\ \A j \in 1 .. Len(master_dfs[k]) :
                    /\ master_dfs[k][j][2] = k
                    /\ master_dfs[k][j][1] \in 1 .. Len(data)
        /\ NumTables(figure) > 0 =>
              artifacts = [written |-> TRUE, tables |-> master_dfs]

\* a finished batch of NeutralSimulatedMutationAccuracy with the error
\* variants, on two processes, with the results collected in row order
C15_Witness ==
    /\ batch_pc = "done"
    /\ figure = "NeutralSimulatedMutationAccuracy"
    /\ with_errors
    /\ num_processes = 2
    /\ collected = <<1, 2>>
    /\ artifacts.written
    /\ artifacts.tables[2] = <<<<1, 2>>, <<2, 2>>>>
    /\ data_file.rows[2].result = 2

\* C16: the serial branch and the pool branch take the same result tuple of
\* the unit of work: in neither of them does the for statement fail to unpack
\* the result, or its body fail on a master table that was never assigned.
C16_BranchesAcceptSameTuple ==
    MapsOverRows(figure) =>
        batch_error \notin {"ValueError: not enough values to unpack",
                            "UnboundLocalError"}

\* C17: whatever the order in which the results arrive, a row of the metadata
\* table holds either what was read from the file or the row returned by its
\* own unit of work (never that of another row), and a finished batch has in
\* each master table each replicate's rows once.
C17_ResultsIndependentOfCompletionOrder ==
    /\ (BatchStarted /\ HasDataFile(figure) /\ file_at_start.exists) =>
          \A i \in 1 .. Len(data) :
              data[i] = IF CountIn(collected, i) > 0
                        THEN ReturnedRow(file_at_start.rows[i], i)
                        ELSE file_at_start.rows[i]
    /\ (batch_pc = "done" /\ MapsOverRows(figure)) =>
          \A p \in Perms(Len(collected)) :
              \A k \in 1 .. Len(master_dfs) :
                  \A n \in 1 .. Len(collected) :
                      CountIn(master_dfs[k], <<collected[p[n]], k>>)
                          = RowsOfUnit(collected[p[n]], k)

\* a finished batch on a pool whose second row was collected before its first
C17_Witness ==
    /\ batch_pc = "done"
    /\ HasDataFile(figure)
    /\ num_processes > 1
    /\ Len(collected) >= 2
    /\ collected[1] = 2
    /\ collected[2] = 1
    /\ data[1].result = 1
    /\ data[2].result = 2

\* C18: when run_multiprocessing of a figure class is called and the table of
\* setup is missing, the error is logged, no unit of work is started, and
\* neither a master table nor the metadata file is written.
C18_MissingTableWritesNothing ==
    (BatchStarted /\ HasDataFile(figure) /\ ~file_at_start.exists) =>
        /\ batch_log # <<>>
        /\ units_run = {}
        /\ ~artifacts.written
        /\ ~data_file.exists

\* C19: when the unit of work raises on a row, the batch ends with that
\* exception, no master table is written, and the metadata file on disk is the
\* one from before the batch (no update of the rows that had completed).
C19_FailedUnitLeavesNoPartialResults ==
    batch_error = "unit of work" =>
        /\ batch_pc = "raised"
        /\ ~artifacts.written
        /\ data_file = file_at_start

\* C20: the Relate working directories of two different rows of the table, or
\* of two different error variants of a row, are different; so the rows two
\* workers are busy with at the same time have no working directory in common.
C20_RelateDirsDistinct ==
    /\ \A i, j \in 1 .. Len(data) :
          \A a, b \in OutputFns(with_errors) :
              RelateDir(data[i].filename, a) = RelateDir(data[j].filename, b)
                  => (i = j /\ a = b)
    /\ \A i, j \in running :
          i # j => RelateDirsOf(data[i]) \cap RelateDirsOf(data[j]) = {}

\* two workers busy with two replicates of the same parameter, each with three
\* error variants
C20_Witness ==
    /\ batch_pc = "pool"
    /\ running = {1, 2}
    /\ with_errors
    /\ Cardinality(RelateDirsOf(data[1]) \cup RelateDirsOf(data[2])) = 6
    /\ data[1].filename = "neutral_simulated_mutation_accuracy_None_0"

----------------------------------------------------------------------------
(* Properties of sampledata_to_vcf *)

\* the rounded positions of the sites the loop has taken
PositionsTaken == {IntRound(sites_position[k]) : k \in 1 .. vcf_i}

\* the first site, in site order, whose position rounds to pos
FirstSiteAt(pos) ==
    CHOOSE k \in 1 .. Len(sites_position) :
        /\ IntRound(sites_position[k]) = pos
        /\ \A j \in 1 .. (k - 1) : IntRound(sites_position[j]) # pos

----------------------------------------------------------------------------
(* Properties of compare_mutations *)

\* the edges of the local tree that covers a position (in half units), as
\* <<child, edge id>>
EdgesCovering(position) ==
    {<<cmp_edges[e].child, e - 1>> :
        e \in {x \in 1 .. Len(cmp_edges) :
                  /\ 2 * cmp_edges[x].left <= position
                  /\ position < 2 * cmp_edges[x].right}}

\* the sums time[node] + time[parent] of the mutations, at sites whose position
\* rounds to key, whose node has a parent in the simulated tree sequence
AgesRoundingTo(key) ==
    {NodeTime(1, c[1]) + NodeTime(1, cmp_edges[c[2] + 1].parent) :
        c \in UNION {{x \in EdgesCovering(cmp_sites[i].position) :
                         \E n \in 1 .. Len(cmp_sites[i].mutations) :
                             cmp_sites[i].mutations[n] = x[1]}
                     : i \in {j \in 1 .. Len(cmp_sites) :
                                 RoundedKey(cmp_sites[j].position) = key}}}

\* C23: every row of the returned frame is labelled by a rounded (integer)
\* position; a mutation with an age in the simulated tree sequence has, in the
\* row of its rounded position, an estimate in the column simulated_ts, and
\* one in the column relate when relate has a row for that position; and where
\* several mutations share the position the estimate is that of the oldest.
C23_JoinedByRoundedPosition ==
    cmp_pc = "done" =>
        /\ \A key \in DOMAIN run_results : key % 2 = 0
        /\ \A i \in 1 .. Len(cmp_sites) :
              LET key == RoundedKey(cmp_sites[i].position) IN
              AgesRoundingTo(key) # {} =>
                  /\ key \in DOMAIN run_results
                  /\ run_results[key].simulated_ts = <<SetMax(AgesRoundingTo(key))>>
                  /\ RelateRows(relate_ages, cmp_sites[i].position) # {}
                        => run_results[key].relate # <<>>

\* C26: get_mut_age raises neither StopIteration, KeyError nor AssertionError,
\* and when the mutations of a site are about to be processed the interval
\* [left, right) of the last edge diff contains the position of the site and
\* edges_by_child holds exactly the edges of the local tree at that position,
\* each under its child.
C26_EdgesByChildIsLocalTree ==
    /\ cmp_pc \notin {"StopIteration", "KeyError", "AssertionError"}
    /\ (/\ cmp_pc = "site"
        /\ sites_done < Len(cmp_sites)
        /\ ~NeedsNextDiff(cmp_right, cmp_sites[sites_done + 1].position)) =>
          LET position == cmp_sites[sites_done + 1].position
          IN /\ 2 * cmp_left <= position
             /\ position < 2 * cmp_right
             /\ edges_by_child = EdgesCovering(position)

\* the second site is about to be processed in the third tree of a genealogy
\* of three trees, the first site lying in the first tree; an edge of the
\* second tree has gone and both children have an edge again
C26_Witness ==
    /\ cmp_pc = "site"
    /\ sites_done = 1
    /\ Len(cmp_sites) = 2
    /\ ~NeedsNextDiff(cmp_right, cmp_sites[2].position)
    /\ diffs_yielded = 3
    /\ cmp_sites[1].position < 2
    /\ Cardinality(edges_by_child) = 2
    /\ Len(cmp_edges) >= 4
    /\ \E e \in 1 .. Len(cmp_edges) : cmp_edges[e].left = 1 /\ cmp_edges[e].right = 2

----------------------------------------------------------------------------
(* Properties of run_evaluation.main *)

\* the entries of the history about one call on one figure
LogHas(first, last, fig, call, event) ==
    \E i \in first .. last : main_log[i] = <<fig, call, event>>

\* C28: with --setup and --inference, the batch inference of a figure starts
\* only after the setup of that figure has returned, and never for a figure
\* whose setup raised; with neither flag no setup and no inference is called,
\* and when main ends it ends with a ValueError
C28_SetupBeforeInference ==
    /\ (main_args.setup /\ main_args.inference) =>
          \A j \in 1 .. Len(main_log) :
              (Len(main_log[j]) = 3 /\ main_log[j][2] = "run_multiprocessing"
                    /\ main_log[j][3] = "called") =>
                  /\ LogHas(1, j - 1, main_log[j][1], "setup", "returned")
                  /\ ~LogHas(1, Len(main_log), main_log[j][1], "setup", "raised")
    /\ (~main_args.setup /\ ~main_args.inference) =>
          /\ \A j \in 1 .. Len(main_log) : Len(main_log[j]) = 2
          /\ main_pc # "returned"
          /\ main_pc = "raised" => main_error = "ValueError"

\* both flags given, and the inference of the second figure has been called
\* after its setup; or no flag given, and main has ended
C28_Witness ==
    \/ /\ main_args.setup /\ main_args.inference
       /\ main_fig = 2
       /\ main_pc = "called"
       /\ CallsOfMain[main_step + 1] = "run_multiprocessing"
    \/ /\ ~main_args.setup /\ ~main_args.inference
       /\ main_args.name = "all"
       /\ main_pc = "raised"
----------------------------------------------------------------------------
(* Properties of CpuScalingSampleSize.clear *)

====
